---------------------------- MODULE Spec2Model ----------------------------
(***************************************************************************)
(* Command resolution and prompt merging of pal-mcp:                       *)
(*   src/src/pal/tools/parser.py    pipeline splitter, command parser      *)
(*   src/src/pal/prompts/loader.py  frontmatter, tiers, merge, save/load   *)
(*   src/src/pal/tools/handlers.py  prompt-chain walker, handler chain     *)
(*                                                                         *)
(* A text is a sequence of atoms.  An atom stands for a run of characters  *)
(* that no operation of the code looks into (a word, a YAML line) or for   *)
(* one significant character (space, newline, pipe).  Concatenation is \o, *)
(* so formatting, splitting and matching are computed, not assumed.        *)
(***************************************************************************)
EXTENDS Naturals, Sequences, FiniteSets

VARIABLES bundled, user, custom, op, saves

vars == <<bundled, user, custom, op, saves>>

-----------------------------------------------------------------------------
(* Text helpers (Python str methods used by the code).                     *)

SP == " "
NL == "\n"
CR == "\r"
PIPE == "|"
DASHES == "---"

\* str.isspace() on one character
IsSpace(c) == c \in {SP, NL, CR}

Max(S) == CHOOSE x \in S : \A y \in S : y <= x
Min(S) == CHOOSE x \in S : \A y \in S : x <= y

\* s[i:] with a 1-based first index
Drop(s, i) == SubSeq(s, i, Len(s))

\* str.startswith
StartsWith(s, p) == Len(p) <= Len(s) /\ SubSeq(s, 1, Len(p)) = p

\* str.endswith
EndsWith(s, p) == Len(p) <= Len(s) /\ SubSeq(s, Len(s) - Len(p) + 1, Len(s)) = p

\* positions at which p occurs in s
Occurrences(s, p) == {i \in 1..(Len(s) + 1 - Len(p)) : SubSeq(s, i, i + Len(p) - 1) = p}

\* the `in` operator on strings
Contains(s, p) == Occurrences(s, p) # {}

\* str.strip()
RECURSIVE LStrip(_)
LStrip(s) == IF s # <<>> /\ IsSpace(Head(s)) THEN LStrip(Tail(s)) ELSE s

RECURSIVE RStrip(_)
RStrip(s) == IF s # <<>> /\ IsSpace(s[Len(s)]) THEN RStrip(SubSeq(s, 1, Len(s) - 1)) ELSE s

Strip(s) == RStrip(LStrip(s))

\* length of the leading run of non-whitespace atoms
RECURSIVE WordLen(_)
WordLen(s) == IF s = <<>> \/ IsSpace(Head(s)) THEN 0 ELSE 1 + WordLen(Tail(s))

\* str.split(): the maximal runs of non-whitespace, each a token
RECURSIVE Split(_)
Split(s) ==
    LET t == LStrip(s)
        n == WordLen(t)
    IN  IF t = <<>> THEN <<>> ELSE <<SubSeq(t, 1, n)>> \o Split(Drop(t, n + 1))

\* sep.join(parts)
RECURSIVE Join(_, _)
Join(parts, sep) ==
    IF Len(parts) = 0 THEN <<>>
    ELSE IF Len(parts) = 1 THEN parts[1]
    ELSE parts[1] \o sep \o Join(Tail(parts), sep)

-----------------------------------------------------------------------------
(* Frontmatter (loader.py parse_frontmatter, yaml.safe_load).              *)
(*                                                                         *)
(* A YAML line is one atom.  A YAML value is a record with a tag t:        *)
(*   "null"                      no value                                  *)
(*   "str"   s: sequence of atoms  a plain scalar                          *)
(*   "list"  items: set of atoms   a block sequence of plain scalars       *)
(*   "map"   m: function key -> value                                      *)
(*   "keys"  keys: set of tokens   a mapping used only for its key set     *)

YNull == [t |-> "null"]
YStr(s) == [t |-> "str", s |-> s]
YList(items) == [t |-> "list", items |-> items]
YMap(m) == [t |-> "map", m |-> m]
YKeys(keys) == [t |-> "keys", keys |-> keys]

\* the mapping lines the documents of the model use: line -> <<key, value>>
YamlEntries ==
    [x \in {"merge_strategy: append", "merge_strategy: prepend",
            "merge_strategy: override", "merge_strategy: bogus",
            "subcommands: {a: A}", "subcommands: {}", "subcommands:"} |->
        CASE x = "merge_strategy: append" -> <<"merge_strategy", YStr(<<"append">>)>>
          [] x = "merge_strategy: prepend" -> <<"merge_strategy", YStr(<<"prepend">>)>>
          [] x = "merge_strategy: override" -> <<"merge_strategy", YStr(<<"override">>)>>
          [] x = "merge_strategy: bogus" -> <<"merge_strategy", YStr(<<"bogus">>)>>
          [] x = "subcommands: {a: A}" -> <<"subcommands", YKeys({<<"a">>})>>
          [] x = "subcommands: {}" -> <<"subcommands", YKeys({})>>
          [] x = "subcommands:" -> <<"subcommands", YNull>>]

\* the block-sequence lines: line -> item
YamlItems == [x \in {"- subcommands", "- item"} |-> IF x = "- item" THEN "item" ELSE "subcommands"]

\* a line the YAML parser rejects ("invalid: yaml: content:")
YamlBad == {"invalid: yaml: content:"}

IsEntry(c) == c \in DOMAIN YamlEntries
IsItem(c) == c \in DOMAIN YamlItems

\* the atoms of s that are not whitespace
RECURSIVE NonSpace(_)
NonSpace(s) ==
    IF s = <<>> THEN <<>>
    ELSE IF IsSpace(Head(s)) THEN NonSpace(Tail(s))
    ELSE <<Head(s)>> \o NonSpace(Tail(s))

Range(s) == {s[i] : i \in 1..Len(s)}

\* the lines of the YAML document in text: a leading "---" is the document start
\* marker and belongs to no value
YamlLines(text) ==
    IF NonSpace(text) # <<>> /\ Head(NonSpace(text)) = DASHES
    THEN Tail(NonSpace(text)) ELSE NonSpace(text)

\* yaml.safe_load(text): [ok |-> FALSE] for a YAMLError, else [ok |-> TRUE, v |-> value].
\* A later duplicate key wins, as in PyYAML.
SafeLoad(text) ==
    LET c == YamlLines(text)
        keys == {YamlEntries[x][1] : x \in Range(c) \cap DOMAIN YamlEntries}
        last(k) == Max({i \in 1..Len(c) : IsEntry(c[i]) /\ YamlEntries[c[i]][1] = k})
    IN  IF c = <<>> THEN [ok |-> TRUE, v |-> YNull]
        ELSE IF Range(c) \cap YamlBad # {} THEN [ok |-> FALSE, v |-> YNull]
        ELSE IF \A i \in 1..Len(c) : IsEntry(c[i])
            THEN [ok |-> TRUE, v |-> YMap([k \in keys |-> YamlEntries[c[last(k)]][2]])]
        ELSE IF \A i \in 1..Len(c) : IsItem(c[i])
            THEN [ok |-> TRUE, v |-> YList({YamlItems[x] : x \in Range(c)})]
        ELSE IF \A i \in 1..Len(c) : ~IsEntry(c[i]) /\ ~IsItem(c[i])
            THEN [ok |-> TRUE, v |-> YStr(c)]
        ELSE [ok |-> FALSE, v |-> YNull]

\* Python truthiness of a YAML value (the `or {}` of parse_frontmatter)
Truthy(v) ==
    CASE v.t = "null" -> FALSE
      [] v.t = "str" -> v.s # <<>>
      [] v.t = "list" -> v.items # {}
      [] v.t = "map" -> DOMAIN v.m # {}
      [] v.t = "keys" -> v.keys # {}

EmptyDict == YMap(<<>>)

\* re.compile(r"^---\s*\n(.*?)\n---\s*\n", re.DOTALL).match(content):
\* the opening newline is at p (after a greedy \s*), the group is content[p+1..q]
\* (lazy), the closing newline is at e (after a greedy \s*).
FmOpenAt(s) == {p \in 2..Len(s) : s[1] = DASHES /\ s[p] = NL /\ \A i \in 2..(p - 1) : IsSpace(s[i])}

FmEndAt(s, q) == {e \in (q + 3)..Len(s) : s[e] = NL /\ \A i \in (q + 3)..(e - 1) : IsSpace(s[i])}

FmCloseAt(s, p) ==
    {q \in p..Len(s) : q + 2 <= Len(s) /\ s[q + 1] = NL /\ s[q + 2] = DASHES /\ FmEndAt(s, q) # {}}

FmMatch(s) ==
    LET ps == {p \in FmOpenAt(s) : FmCloseAt(s, p) # {}}
    IN  IF s = <<>> \/ ps = {} THEN [found |-> FALSE, group |-> <<>>, end |-> 0]
        ELSE LET p == Max(ps)
                 q == Min(FmCloseAt(s, p))
             IN  [found |-> TRUE, group |-> SubSeq(s, p + 1, q), end |-> Max(FmEndAt(s, q))]

\* parse_frontmatter removing the block although its YAML failed to parse
parse_frontmatter_partial(content) ==
    LET parsed(m, y) ==
            IF m.found
            THEN [fm |-> IF y.ok /\ Truthy(y.v) THEN y.v ELSE EmptyDict,
                  body |-> Drop(content, m.end + 1)]
            ELSE [fm |-> EmptyDict, body |-> content]
        matched(m) == parsed(m, SafeLoad(m.group))
    IN  matched(FmMatch(content))

\* parse_frontmatter(content) -> (frontmatter, body)
parse_frontmatter(content) ==
    LET parsed(m, y) ==
            IF m.found /\ y.ok
            THEN [fm |-> IF Truthy(y.v) THEN y.v ELSE EmptyDict, body |-> Drop(content, m.end + 1)]
            ELSE [fm |-> EmptyDict, body |-> content]
        matched(m) == parsed(m, SafeLoad(m.group))
    IN  matched(FmMatch(content))

-----------------------------------------------------------------------------
(* Document Resolver (loader.py).  A tier is a function from the paths of  *)
(* the files that exist in it to their text; a path is a sequence of       *)
(* tokens, prompts/<t1>/.../<tk>.md.                                       *)

NoText == [kind |-> "none", text |-> <<>>]
SomeText(t) == [kind |-> "ok", text |-> t]
Raised == [kind |-> "raise", text |-> <<>>]

\* frontmatter.get(key, default) on a dict
DictGet(fm, key, default) == IF key \in DOMAIN fm.m THEN fm.m[key] ELSE default

\* get_merge_strategy(frontmatter); "AttributeError" when frontmatter has no .get
get_merge_strategy(frontmatter) ==
    IF frontmatter.t # "map" THEN "AttributeError"
    ELSE LET strategy == DictGet(frontmatter, "merge_strategy", YStr(<<"override">>))
         IN  IF strategy.t = "str" /\ strategy.s \in {<<"override">>, <<"append">>, <<"prepend">>}
             THEN strategy.s[1]
             ELSE "override"

\* merge_prompts with the append and prepend branches exchanged
merge_prompts_swapped(user_content, bundled_content, strategy) ==
    IF strategy = "override" THEN user_content
    ELSE IF strategy = "append" THEN user_content \o <<NL, NL>> \o bundled_content
    ELSE IF strategy = "prepend" THEN bundled_content \o <<NL, NL>> \o user_content
    ELSE user_content

\* merge_prompts(user_content, bundled_content, strategy)
merge_prompts(user_content, bundled_content, strategy) ==
    IF strategy = "override" THEN user_content
    ELSE IF strategy = "append" THEN bundled_content \o <<NL, NL>> \o user_content
    ELSE IF strategy = "prepend" THEN user_content \o <<NL, NL>> \o bundled_content
    ELSE user_content

\* Path.read_text(encoding="utf-8") of a file holding `stored`: the file is opened in
\* text mode, whose universal newlines turn "\r\n" and a lone "\r" into "\n"
RECURSIVE read_text(_)
read_text(stored) ==
    IF stored = <<>> THEN <<>>
    ELSE IF Head(stored) = CR
    THEN <<NL>> \o read_text(IF Len(stored) >= 2 /\ stored[2] = NL
                             THEN Tail(Tail(stored)) ELSE Tail(stored))
    ELSE <<Head(stored)>> \o read_text(Tail(stored))

\* _load_bundled_by_path(path_parts) on the bundled tier b
load_bundled_by_path(b, path_parts) ==
    IF path_parts \in DOMAIN b THEN SomeText(read_text(b[path_parts])) ELSE NoText

\* _load_custom_by_path(path_parts) on the custom tier c: (body, frontmatter)
load_custom_by_path(c, path_parts) ==
    LET stripped(r) == [content |-> SomeText(r.body), frontmatter |-> r.fm]
    IN  IF path_parts \in DOMAIN c
        THEN stripped(parse_frontmatter(read_text(c[path_parts])))
        ELSE [content |-> NoText, frontmatter |-> EmptyDict]

\* load_merged_prompt testing `if content:` where the code tests `is not None`
load_merged_prompt_truthy(b, c, path_parts) ==
    LET has(x) == x.kind # "none" /\ x.text # <<>>
        merged(bundled_content, custom_content, strategy) ==
            IF has(custom_content)
            THEN IF has(bundled_content)
                 THEN IF strategy = "AttributeError" THEN Raised
                      ELSE SomeText(merge_prompts(custom_content.text, bundled_content.text, strategy))
                 ELSE custom_content
            ELSE IF has(bundled_content) THEN bundled_content
            ELSE NoText
        loaded(bundled_content, cu) ==
            merged(bundled_content, cu.content, get_merge_strategy(cu.frontmatter))
    IN  loaded(load_bundled_by_path(b, path_parts), load_custom_by_path(c, path_parts))

\* load_merged_prompt(path_parts) on the tiers b (bundled) and c (custom)
load_merged_prompt(b, c, path_parts) ==
    LET merged(bundled_content, custom_content, strategy) ==
            IF custom_content.kind # "none"
            THEN IF bundled_content.kind # "none"
                 THEN IF strategy = "AttributeError" THEN Raised
                      ELSE SomeText(merge_prompts(custom_content.text, bundled_content.text, strategy))
                 ELSE custom_content
            ELSE IF bundled_content.kind # "none" THEN bundled_content
            ELSE NoText
        loaded(bundled_content, cu) ==
            merged(bundled_content, cu.content, get_merge_strategy(cu.frontmatter))
    IN  loaded(load_bundled_by_path(b, path_parts), load_custom_by_path(c, path_parts))

-----------------------------------------------------------------------------
(* Prompt-Chain Walker (handlers.py load_prompt_chain).                    *)

\* a membership test that never finds the key
In_never(key, fm) == FALSE

\* `key in frontmatter`: a key of a dict, a substring of a str, an element of a list
In(key, fm) ==
    CASE fm.t = "map" -> key \in DOMAIN fm.m
      [] fm.t = "str" -> key \in Range(fm.s)
      [] fm.t = "list" -> key \in fm.items
      [] OTHER -> FALSE

\* `token not in valid_subs` for the value of the subcommands key
NotInSubs(token, valid_subs) ==
    IF valid_subs.t = "keys" THEN token \notin valid_subs.keys ELSE TRUE

\* one iteration of the while loop of load_prompt_chain on the loop state w:
\* w.kind is "loop" while the loop runs, "ok" after a break or when no token is left,
\* "raise" when the iteration raised; calls counts the load_merged_prompt calls
WalkStep(b, c, w) ==
    LET gate(taken, frontmatter, valid_subs) ==
            IF ~In("subcommands", frontmatter) THEN taken
            ELSE IF taken.rest = <<>> THEN [taken EXCEPT !.kind = "ok"]
            ELSE IF frontmatter.t # "map" THEN [taken EXCEPT !.kind = "raise"]
            ELSE IF ~Truthy(valid_subs) \/ NotInSubs(Head(taken.rest), valid_subs)
                 THEN [taken EXCEPT !.kind = "ok"]
            ELSE taken
        check(taken, frontmatter) ==
            gate(taken, frontmatter, DictGet(frontmatter, "subcommands", EmptyDict))
        take(current_path_parts, content) ==
            IF content.kind = "raise" THEN [w EXCEPT !.kind = "raise", !.calls = w.calls + 1]
            ELSE IF content.kind = "none" THEN [w EXCEPT !.kind = "ok", !.calls = w.calls + 1]
            ELSE check([w EXCEPT !.chain = Append(w.chain,
                                                  [path |-> Join(current_path_parts, <<"/">>),
                                                   content |-> content.text]),
                                 !.path_parts = current_path_parts,
                                 !.rest = Tail(w.rest),
                                 !.calls = w.calls + 1],
                       parse_frontmatter(content.text).fm)
        resolve(current_path_parts) ==
            take(current_path_parts, load_merged_prompt(b, c, current_path_parts))
    IN  IF w.rest = <<>> THEN [w EXCEPT !.kind = "ok"]
        ELSE resolve(Append(w.path_parts, Head(w.rest)))

\* the while loop of load_prompt_chain
RECURSIVE WalkLoop(_, _, _)
WalkLoop(b, c, w) == IF w.kind # "loop" THEN w ELSE WalkLoop(b, c, WalkStep(b, c, w))

\* the loop state at entry: prompts = [], path_parts = [], remaining_tokens = tokens.copy()
WalkStart(tokens) == [kind |-> "loop", chain |-> <<>>, path_parts |-> <<>>, rest |-> tokens, calls |-> 0]

\* load_prompt_chain popping the token before testing whether it resolved
load_prompt_chain_popfirst(b, c, tokens) ==
    LET result(w, left) ==
            [kind |-> w.kind, prompts |-> w.chain, rest |-> left,
             user_input |-> Join(left, <<SP>>), calls |-> w.calls]
        popped(w) ==
            result(w, IF w.rest # <<>> /\ Len(w.chain) + Len(w.rest) = Len(tokens)
                         /\ load_merged_prompt(b, c, SubSeq(tokens, 1, Len(w.chain) + 1)).kind = "none"
                      THEN Tail(w.rest) ELSE w.rest)
    IN  popped(WalkLoop(b, c, WalkStart(tokens)))

\* load_prompt_chain resolving the next path before testing whether a token is left
load_prompt_chain_lookahead(b, c, tokens) ==
    LET result(w) ==
            [kind |-> w.kind, prompts |-> w.chain, rest |-> w.rest,
             user_input |-> Join(w.rest, <<SP>>),
             calls |-> IF w.kind = "ok" /\ w.rest = <<>> THEN w.calls + 1 ELSE w.calls]
    IN  result(WalkLoop(b, c, WalkStart(tokens)))

\* load_prompt_chain(tokens) -> (prompts, user_input)
load_prompt_chain(b, c, tokens) ==
    LET result(w) ==
            [kind |-> w.kind, prompts |-> w.chain, rest |-> w.rest,
             user_input |-> Join(w.rest, <<SP>>), calls |-> w.calls]
    IN  result(WalkLoop(b, c, WalkStart(tokens)))

-----------------------------------------------------------------------------
(* Command Parser (parser.py parse_command).                               *)

\* str.lower() on the atoms that have an upper-case spelling
LowerAtom(c) ==
    CASE c = "N" -> "n"
      [] c = "ECHO" -> "echo"
      [] c = "NOTES" -> "notes"
      [] c = "ADD" -> "add"
      [] c = "SAVE" -> "save"
      [] c = "Notes" -> "notes"
      [] c = "Add" -> "add"
      [] c = "GIT" -> "git"
      [] c = "MSG" -> "msg"
      [] OTHER -> c

Lower(s) == [i \in 1..Len(s) |-> LowerAtom(s[i])]

ParsedCommand(namespace, rest) == [namespace |-> namespace, rest |-> rest]

\* ParsedCommand.__bool__
ParsedCommand_bool(command) == command.namespace # <<>>

\* parse_command lower-casing the whole command
parse_command_lowerall(raw_command) ==
    LET t == LStrip(raw_command)
        n == WordLen(t)
    IN  IF raw_command = <<>> THEN [kind |-> "ok", command |-> ParsedCommand(<<>>, <<>>)]
        ELSE IF t = <<>> THEN [kind |-> "raise", command |-> ParsedCommand(<<>>, <<>>)]
        ELSE [kind |-> "ok",
              command |-> ParsedCommand(Lower(SubSeq(t, 1, n)), Lower(LStrip(Drop(t, n + 1))))]

\* parse_command(raw_command); raw_command.split(None, 1) is empty for a
\* whitespace-only string and parts[0] then raises IndexError
parse_command(raw_command) ==
    LET t == LStrip(raw_command)
        n == WordLen(t)
    IN  IF raw_command = <<>> THEN [kind |-> "ok", command |-> ParsedCommand(<<>>, <<>>)]
        ELSE IF t = <<>> THEN [kind |-> "raise", command |-> ParsedCommand(<<>>, <<>>)]
        ELSE [kind |-> "ok",
              command |-> ParsedCommand(Lower(SubSeq(t, 1, n)), LStrip(Drop(t, n + 1)))]

\* CONTENT_CONSUMING_COMMANDS
CONTENT_CONSUMING_COMMANDS == {<<"notes", SP, "add">>, <<"notes", SP, "save">>}

\* _is_content_consuming_command(command_string)
is_content_consuming_command(command_string) ==
    \E prefix \in CONTENT_CONSUMING_COMMANDS :
        /\ StartsWith(Lower(command_string), prefix)
        /\ \/ Len(command_string) = Len(prefix)
           \/ IsSpace(command_string[Len(prefix) + 1])

\* \w at the end (start) of the atom: the atoms that are not words are the
\* whitespace, the pipe and the dashes
IsWord(c) == ~IsSpace(c) /\ c \notin {PIPE, DASHES, "--", "--help"}

\* the matches of r"(?<=\w) \| (?=\w)" in s: the positions of the space before the pipe
PipeMatches(s) ==
    {i \in 2..(Len(s) - 3) :
        /\ IsWord(s[i - 1])
        /\ s[i] = SP /\ s[i + 1] = PIPE /\ s[i + 2] = SP
        /\ IsWord(s[i + 3])}

\* a split at the first match only
SplitPipes_first(s, from) ==
    LET rest(ms) == IF ms = {} THEN <<SubSeq(s, from, Len(s))>>
                    ELSE <<SubSeq(s, from, Min(ms) - 1), SubSeq(s, Min(ms) + 3, Len(s))>>
    IN  rest({i \in PipeMatches(s) : i >= from})

\* re.split(r"(?<=\w) \| (?=\w)", s) from position `from` on
RECURSIVE SplitPipes(_, _)
SplitPipes(s, from) ==
    LET rest(ms) == IF ms = {} THEN <<SubSeq(s, from, Len(s))>>
                    ELSE <<SubSeq(s, from, Min(ms) - 1)>> \o SplitPipes(s, Min(ms) + 3)
    IN  rest({i \in PipeMatches(s) : i >= from})

\* StripSegments keeping the segments that are empty after trimming
StripSegments_keepempty(segments) == [i \in 1..Len(segments) |-> Strip(segments[i])]

\* [segment.strip() for segment in segments if segment.strip()]
RECURSIVE StripSegments(_)
StripSegments(segments) ==
    IF segments = <<>> THEN <<>>
    ELSE (IF Strip(Head(segments)) = <<>> THEN <<>> ELSE <<Strip(Head(segments))>>)
         \o StripSegments(Tail(segments))

\* parse_pipeline without the guard for a string that starts or ends with a pipe
parse_pipeline_noguard(command_string) ==
    LET whole(stripped) ==
            IF is_content_consuming_command(stripped)
            THEN IF stripped # <<>> THEN <<stripped>> ELSE <<>>
            ELSE StripSegments(SplitPipes(command_string, 1))
    IN  IF command_string = <<>> THEN <<>>
        ELSE whole(Strip(command_string))

\* parse_pipeline(command_string)
parse_pipeline(command_string) ==
    LET whole(stripped) ==
            IF is_content_consuming_command(stripped)
            THEN IF stripped # <<>> THEN <<stripped>> ELSE <<>>
            ELSE IF StartsWith(stripped, <<PIPE>>) \/ EndsWith(stripped, <<PIPE>>)
            THEN IF stripped # <<>> THEN <<stripped>> ELSE <<>>
            ELSE StripSegments(SplitPipes(command_string, 1))
    IN  IF command_string = <<>> THEN <<>>
        ELSE whole(Strip(command_string))

-----------------------------------------------------------------------------
(* Custom prompts (loader.py).                                             *)

\* _name_to_path(base_path, name): the tokens of the name; parts[-1] raises
\* IndexError when the name has no token
name_to_path(name) == Split(name)

\* content.replace("\\n", "\n"): the two-character sequence backslash n is the atom "\\n"
RECURSIVE ReplaceEscapedNewlines(_)
ReplaceEscapedNewlines(content) ==
    IF content = <<>> THEN <<>>
    ELSE <<IF Head(content) = "\\n" THEN NL ELSE Head(content)>>
         \o ReplaceEscapedNewlines(Tail(content))

\* a write that leaves only the written document in the tier
WriteText_clobber(c, path, text) == [p \in {path} |-> text]

\* Path.write_text(text, encoding="utf-8") at path in the tier c; text mode writes
\* "\n" as os.linesep, which is "\n" where the server runs
WriteText(c, path, text) == [p \in DOMAIN c \cup {path} |-> IF p = path THEN text ELSE c[p]]

\* save_custom_prompt(name, content) on the custom tier c:
\* [kind, message, custom], message being the returned string
save_custom_prompt(c, name, content) ==
    IF name = <<>>
    THEN [kind |-> "ok", message |-> [error |-> TRUE, name |-> name], custom |-> c]
    ELSE IF name_to_path(name) = <<>>
    THEN [kind |-> "raise", message |-> [error |-> TRUE, name |-> name], custom |-> c]
    ELSE [kind |-> "ok", message |-> [error |-> FALSE, name |-> name],
          custom |-> WriteText(c, name_to_path(name), ReplaceEscapedNewlines(content))]

\* load_custom_prompt(name) on the custom tier c
load_custom_prompt(c, name) ==
    IF name_to_path(name) = <<>> THEN Raised
    ELSE IF name_to_path(name) \in DOMAIN c THEN SomeText(read_text(c[name_to_path(name)]))
    ELSE NoText

\* _path_to_name(base_path, file_path)
path_to_name(path) == Join(path, <<SP>>)

\* list_custom_prompts(): the names of all custom documents (sorted in the code)
list_custom_prompts(c) == {path_to_name(p) : p \in DOMAIN c}

\* list_subcommands reading the bundled directory only
list_subcommands_bundledonly(b, u, c, namespace) ==
    {p[2] : p \in {q \in DOMAIN b : Len(q) = 2 /\ q[1] = namespace}}

\* list_subcommands(namespace): the children found directly under the namespace
\* in the bundled, user and custom tiers (a sorted list in the code)
list_subcommands(b, u, c, namespace) ==
    LET children(tier) == {p[2] : p \in {q \in DOMAIN tier : Len(q) = 2 /\ q[1] = namespace}}
    IN  children(b) \cup children(u) \cup children(c)

\* _INTERNAL_PROMPTS
INTERNAL_PROMPTS == {<<"root">>, <<"help">>, <<"curl">>}

\* list_builtin_prompts(): the names listed for the bundled tier: a top-level file
\* with no directory of its name, or a directory with a file directly in it
list_builtin_prompts(b) ==
    LET files == {p[1] : p \in {q \in DOMAIN b : Len(q) = 1}}
        dirs == {p[1] : p \in {q \in DOMAIN b : Len(q) >= 2}}
        nonempty == {p[1] : p \in {q \in DOMAIN b : Len(q) = 2}}
    IN  ((files \ dirs) \cup nonempty) \ INTERNAL_PROMPTS

\* load_prompt(namespace) with no subcommand: user tier merged over the bundled
\* tier, or the "Unknown command" text
load_prompt(b, u, namespace) ==
    LET found(r) == IF r.kind = "none" THEN [kind |-> "unknown", text |-> <<>>] ELSE r
    IN  found(load_merged_prompt(b, u, <<namespace>>))


-----------------------------------------------------------------------------
(* Handler Chain (handlers.py).  A handler returns NotHandled (None) or a  *)
(* CommandResult; the output text is a record of its kind and of the parts *)
(* the handler formats into it.  Every result carries the custom tier as   *)
(* the handler leaves it.                                                  *)

NotHandled(c) == [handled |-> FALSE, kind |-> "ok", output |-> [kind |-> "none"], custom |-> c]
CommandResult(output, c) == [handled |-> TRUE, kind |-> "ok", output |-> output, custom |-> c]
HandlerRaised(c) == [handled |-> TRUE, kind |-> "raise", output |-> [kind |-> "raise"], custom |-> c]

\* BUILTIN_COMMANDS
BUILTIN_COMMANDS == {<<"echo">>, <<"prompt">>, <<"help">>}

\* the placeholder of the creation hints
Placeholder == <<"Your", SP, "instruction", SP, "here">>

\* handle_echo(command)
handle_echo(b, u, c, command) ==
    IF command.namespace # <<"echo">> THEN NotHandled(c)
    ELSE CommandResult([kind |-> "echo", text |-> command.rest], c)

\* rest.split(" -- ", 1)
SplitDashes(rest) ==
    LET i == Min(Occurrences(rest, <<SP, "--", SP>>))
    IN  [name_part |-> SubSeq(rest, 1, i - 1), prompt_content |-> Drop(rest, i + 3)]

\* handle_prompt(command)
handle_prompt(b, u, c, command) ==
    LET answer(prompt_name, prompt_content, existing, saved) ==
            IF prompt_name = <<>>
            THEN CommandResult([kind |-> "prompt_list", prompts |-> list_custom_prompts(c)], c)
            ELSE IF prompt_content = <<>>
            THEN IF existing.kind = "ok" /\ existing.text # <<>>
                 THEN CommandResult([kind |-> "prompt_show", name |-> prompt_name,
                                     definition |-> existing.text], c)
                 ELSE CommandResult([kind |-> "prompt_not_found", name |-> prompt_name,
                                     create |-> <<"prompt", SP>> \o prompt_name
                                                \o <<SP, "--", SP>> \o Placeholder], c)
            ELSE CommandResult([kind |-> "prompt_saved", name |-> prompt_name,
                                result |-> saved.message], saved.custom)
        parsed(prompt_name, prompt_content) ==
            answer(prompt_name, prompt_content,
                   load_custom_prompt(c, prompt_name),
                   save_custom_prompt(c, prompt_name, prompt_content))
        split(parts) == parsed(Strip(parts.name_part), parts.prompt_content)
    IN  IF command.namespace # <<"prompt">> THEN NotHandled(c)
        ELSE IF command.rest = <<>> THEN parsed(<<>>, <<>>)
        ELSE IF Contains(command.rest, <<SP, "--", SP>>) THEN split(SplitDashes(command.rest))
        ELSE parsed(Strip(command.rest), <<>>)

\* handle_help_command(command)
handle_help_command(b, u, c, command) ==
    IF command.namespace # <<"help">> THEN NotHandled(c)
    ELSE CommandResult([kind |-> "help", builtin |-> BUILTIN_COMMANDS,
                        prompts |-> list_builtin_prompts(b),
                        custom_prompts |-> list_custom_prompts(c)], c)

\* handle_help(command)
handle_help(b, u, c, command) ==
    LET is_help(rest, first_word) == first_word = <<"help">> \/ StartsWith(rest, <<"--help">>)
        stripped(rest) == is_help(rest, IF rest # <<>> THEN Split(rest)[1] ELSE <<>>)
        listed(subcommands) ==
            CommandResult([kind |-> "namespace_help", namespace |-> command.namespace,
                           content |-> IF subcommands # {} THEN "Available prompts"
                                       ELSE "No subprompts available",
                           subcommands |-> subcommands], c)
    IN  IF ~stripped(Strip(command.rest)) THEN NotHandled(c)
        ELSE listed(list_subcommands(b, u, c, command.namespace))

\* handle_standard_prompt(command)
handle_standard_prompt(b, u, c, command) ==
    LET answer(root_content, chain) ==
            IF root_content.kind = "raise" \/ chain.kind = "raise" THEN HandlerRaised(c)
            ELSE IF chain.prompts = <<>>
            THEN CommandResult([kind |-> "not_defined", namespace |-> command.namespace,
                                create |-> <<"prompt", SP>> \o command.namespace
                                           \o <<SP>> \o Placeholder], c)
            ELSE CommandResult([kind |-> "standard", header |-> command,
                                protocol |-> root_content,
                                prompts |-> chain.prompts,
                                user_input |-> chain.user_input], c)
    IN  answer(load_prompt(b, u, <<"root">>),
               load_prompt_chain(b, c, <<command.namespace>> \o Split(command.rest)))

\* COMMAND_HANDLERS with the help handler tried before the prompt handler
COMMAND_HANDLERS_helpsecond == <<"handle_echo", "handle_help", "handle_prompt", "handle_help_command">>

\* COMMAND_HANDLERS with the help handler tried before the echo handler
COMMAND_HANDLERS_helpfirst == <<"handle_help", "handle_echo", "handle_prompt", "handle_help_command">>

\* COMMAND_HANDLERS, in the order tried
COMMAND_HANDLERS == <<"handle_echo", "handle_prompt", "handle_help_command", "handle_help">>

\* handler(command, ctx) for an entry of COMMAND_HANDLERS
CallHandler(handler, b, u, c, command) ==
    CASE handler = "handle_echo" -> handle_echo(b, u, c, command)
      [] handler = "handle_prompt" -> handle_prompt(b, u, c, command)
      [] handler = "handle_help_command" -> handle_help_command(b, u, c, command)
      [] handler = "handle_help" -> handle_help(b, u, c, command)

\* the for loop of execute_command from handler i on, then the fallback
RECURSIVE TryHandlers(_, _, _, _, _)
TryHandlers(i, b, u, c, command) ==
    LET tried(result) == IF result.handled THEN result ELSE TryHandlers(i + 1, b, u, c, command)
    IN  IF i > Len(COMMAND_HANDLERS)
        THEN [handle_standard_prompt(b, u, c, command) EXCEPT !.handled = FALSE]
        ELSE tried(CallHandler(COMMAND_HANDLERS[i], b, u, c, command))

\* execute_command(command): [kind, output, custom, fallback]; fallback tells
\* that no handler of COMMAND_HANDLERS answered
execute_command(b, u, c, command) ==
    LET result(r) == [kind |-> r.kind, output |-> r.output, custom |-> r.custom,
                      fallback |-> ~r.handled]
    IN  result(TryHandlers(1, b, u, c, command))


-----------------------------------------------------------------------------
(* Documents and tiers of the model.                                       *)

\* a frontmatter block with the given YAML lines
Fm(lines) == <<DASHES, NL>> \o Join([i \in 1..Len(lines) |-> <<lines[i]>>], <<NL>>) \o <<NL, DASHES, NL>>

Absent == <<"<absent>">>

\* the tier holding text pairs[i][2] at path pairs[i][1], for each pair not Absent
MkTier(pairs) ==
    LET present == {i \in 1..Len(pairs) : pairs[i][2] # Absent}
    IN  [p \in {pairs[i][1] : i \in present} |-> pairs[CHOOSE i \in present : pairs[i][1] = p][2]]

EmptyTier == MkTier(<<>>)

Tn == <<"n">>
Ta == <<"a">>
Tb == <<"b">>
Tx == <<"x">>

\* bundled documents for the namespace n
BundledDocs ==
    {<<"B">>,
     Fm(<<"subcommands: {a: A}">>) \o <<"B">>,
     Fm(<<"subcommands:">>) \o <<"B">>,
     Fm(<<"subcommands: {}">>) \o <<"B">>,
     Fm(<<"merge_strategy: prepend">>) \o <<"B">>}

\* custom documents for the namespace n, as a user may have written them
CustomDocs ==
    {<<"W">>,
     <<>>,
     Fm(<<"merge_strategy: append">>) \o <<"W">>,
     Fm(<<"merge_strategy: prepend">>) \o <<NL, "W">>,
     Fm(<<"merge_strategy: override">>) \o <<"W">>,
     Fm(<<"merge_strategy: bogus">>) \o <<"W">>,
     Fm(<<"subcommands: {a: A}">>) \o <<"W">>,
     Fm(<<"merge_strategy: append", "subcommands: {a: A}">>) \o <<"W">>,
     Fm(<<"invalid: yaml: content:">>) \o <<"W">>,
     Fm(<<"subcommands">>) \o <<"W">>,
     Fm(<<"- item">>) \o <<"W">>,
     <<"W", CR, NL, "V">>,
     Fm(<<"merge_strategy: append">>) \o Fm(<<"subcommands">>) \o <<"W">>}

BundledTiers ==
    {MkTier(<<<<<<Tn>>, dn>>, <<<<Tn, Ta>>, da>>, <<<<Tn, Tb>>, db>>, <<<<Tn, Ta, Tb>>, dab>>>>) :
        dn \in BundledDocs \cup {Absent}, da \in {<<"Ba">>, Absent},
        db \in {<<"Bb">>, Absent}, dab \in {<<"Bab">>, Absent}}

CustomTiers ==
    {MkTier(<<<<<<Tn>>, dn>>, <<<<Tn, Ta>>, da>>, <<<<Tn, Tb>>, db>>>>) :
        dn \in CustomDocs \cup {Absent}, da \in {<<"Wa">>, Absent}, db \in {<<"Wb">>, Absent}}

\* longest token list handed to the walker
MaxTokens == 3

RECURSIVE SeqsUpTo(_, _)
SeqsUpTo(S, n) ==
    IF n = 0 THEN {<<>>}
    ELSE LET shorter == SeqsUpTo(S, n - 1)
         IN  shorter \cup {Append(t, x) : t \in shorter, x \in S}

\* token lists: a namespace followed by up to MaxTokens - 1 further tokens
TokenLists == {<<ns>> \o t : ns \in {Tn, Tx}, t \in SeqsUpTo({Ta, Tb, Tx}, MaxTokens - 1)}

ResolvePaths == {<<Tn>>, <<Tn, Ta>>, <<Tn, Tb>>, <<Tx>>}

-----------------------------------------------------------------------------
(* SpecResolve: the resolver and the walker called on arbitrary tiers.     *)

\* no call in progress
Idle == [kind |-> "idle"]

InitResolve ==
    /\ bundled \in BundledTiers
    /\ custom \in CustomTiers
    /\ user = EmptyTier
    /\ op = Idle
    /\ saves = 0

\* a call of load_merged_prompt(path_parts)
Resolve(path_parts) ==
    /\ op.kind = "idle"
    /\ op' = [kind |-> "resolve", path |-> path_parts,
              result |-> load_merged_prompt(bundled, custom, path_parts)]
    /\ UNCHANGED <<bundled, user, custom, saves>>

\* a call of load_prompt_chain(tokens)
Walk(tokens) ==
    /\ op.kind = "idle"
    /\ op' = [kind |-> "walk", tokens |-> tokens,
              result |-> load_prompt_chain(bundled, custom, tokens)]
    /\ UNCHANGED <<bundled, user, custom, saves>>

\* the caller takes the result; the next call may start
Return ==
    /\ op.kind # "idle"
    /\ op' = Idle
    /\ UNCHANGED <<bundled, user, custom, saves>>

NextResolve ==
    \/ \E path_parts \in ResolvePaths : Resolve(path_parts)
    \/ \E tokens \in TokenLists : Walk(tokens)
    \/ Return

SpecResolve == InitResolve /\ [][NextResolve]_vars

-----------------------------------------------------------------------------
(* Spec: commands dispatched through execute_command, one after another,   *)
(* on tiers a user may have; prompt saves change the custom tier.          *)

Tm == <<"m">>
Troot == <<"root">>
Techo == <<"echo">>
Thelp == <<"help">>
Tprompt == <<"prompt">>

\* bundled tiers: the protocol document, a namespace n with a child, a document named echo
DispatchBundled ==
    {MkTier(<<<<<<Troot>>, dr>>, <<<<Tn>>, dn>>, <<<<Tn, Ta>>, da>>, <<<<Techo>>, de>>>>) :
        dr \in {<<"R">>, Absent},
        dn \in {<<"B">>, Fm(<<"subcommands: {a: A}">>) \o <<"B">>, Absent},
        da \in {<<"Ba">>, Absent},
        de \in {<<"E">>, Absent}}

\* user tiers: no override, or a protocol override appended to the bundled one
DispatchUser == {EmptyTier, MkTier(<<<<<<Troot>>, Fm(<<"merge_strategy: append">>) \o <<"U">>>>>>)}

\* custom tiers as a user may have left them
DispatchCustom ==
    {EmptyTier,
     MkTier(<<<<<<Tn>>, <<"W">>>>>>),
     MkTier(<<<<<<Tn>>, <<>>>>>>),
     MkTier(<<<<<<Tn>>, Fm(<<"- item">>) \o <<"W">>>>>>),
     MkTier(<<<<<<Techo>>, <<"W">>>>, <<<<Tn, Tb>>, <<"Wb">>>>>>)}

\* the rest of a command: its atoms joined by single spaces
Words(ws) == Join([i \in 1..Len(ws) |-> <<ws[i]>>], <<SP>>)

\* the commands dispatched
Commands ==
    {ParsedCommand(ns, Words(ws)) :
        ns \in {Techo, Tn, Tm},
        ws \in {<<>>, <<"help">>, <<"--help">>, <<"a">>, <<"a", "x">>, <<"b", "x">>}}
    \cup {ParsedCommand(Techo, <<SP, "x", SP, SP, "|", "X", SP>>),
          ParsedCommand(<<>>, <<>>),
          ParsedCommand(Thelp, <<>>),
          ParsedCommand(Thelp, <<"--help">>)}
    \cup {ParsedCommand(Tprompt, Words(ws)) :
            ws \in {<<>>, <<"help">>, <<"n">>, <<"m">>, <<"n", "a">>, <<"echo">>,
                    <<"m", "--", "W">>,
                    <<"echo", "--", "W">>,
                    <<"n", "a", "--", "W", "\\n", "V">>,
                    <<"n", "--", "---", "\\n", "subcommands", "\\n", "---", "\\n", "W">>}}

\* prompt saves in one behaviour
MaxSaves == 1

Init ==
    /\ bundled \in DispatchBundled
    /\ user \in DispatchUser
    /\ custom \in DispatchCustom
    /\ op = Idle
    /\ saves = 0

\* the effect of execute_command(command) on the state; followup names the
\* namespace whose creation hint the command was taken from, or is empty
Execute(command, followup) ==
    \E r \in {execute_command(bundled, user, custom, command)} :
        /\ r.custom # custom => saves < MaxSaves
        /\ op' = [kind |-> "dispatch", command |-> command, followup |-> followup,
                  result |-> [kind |-> r.kind, output |-> r.output, fallback |-> r.fallback],
                  before |-> custom]
        /\ custom' = r.custom
        /\ saves' = IF r.custom # custom THEN saves + 1 ELSE saves
        /\ UNCHANGED <<bundled, user>>

\* a command is dispatched
Dispatch(command) ==
    /\ op.kind = "idle"
    /\ Execute(command, <<>>)

\* the user runs the creation hint of a "not defined" answer as printed
DispatchHint ==
    /\ op.kind = "dispatch"
    /\ op.result.kind = "ok"
    /\ op.result.output.kind = "not_defined"
    /\ op.followup = <<>>
    /\ Execute(parse_command(op.result.output.create).command, <<op.command.namespace>>)

Next ==
    \/ \E command \in Commands : Dispatch(command)
    \/ DispatchHint
    \/ Return

Spec == Init /\ [][Next]_vars

-----------------------------------------------------------------------------
(* SpecStore: custom prompts saved and loaded by name.                     *)

\* custom tiers before the first save
StoreTiers ==
    {EmptyTier,
     MkTier(<<<<<<<<"foo">>>>, <<"old">>>>>>),
     MkTier(<<<<<<<<"foo">>, <<"bar">>>>, <<"old">>>>>>)}

\* prompt names: one token, several tokens, surrounding and repeated whitespace,
\* no token, the empty name
StoreNames ==
    {<<"foo">>,
     <<"foo", SP, "bar">>,
     <<"foo", SP, "bar", SP, "baz">>,
     <<SP, "foo", SP, SP, "bar", NL>>,
     <<SP>>,
     <<>>}

\* prompt contents
StoreContents ==
    {<<>>,
     <<"W">>,
     <<"\\n">>,
     <<"a", "\\n", "b", "\\n", "\\n", "c">>,
     <<"a", NL, "b">>,
     <<"a", CR, "b">>,
     <<"a", CR, NL, "b">>,
     Fm(<<"merge_strategy: append">>) \o <<"W">>}

\* saves in one behaviour
MaxStoreSaves == 2

InitStore ==
    /\ bundled = EmptyTier
    /\ user = EmptyTier
    /\ custom \in StoreTiers
    /\ op = Idle
    /\ saves = 0

\* a call of save_custom_prompt(name, content)
Save(name, content) ==
    /\ op.kind = "idle"
    /\ saves < MaxStoreSaves
    /\ \E r \in {save_custom_prompt(custom, name, content)} :
        /\ op' = [kind |-> "save", name |-> name, content |-> content,
                  result |-> [kind |-> r.kind, message |-> r.message],
                  before |-> custom]
        /\ custom' = r.custom
    /\ saves' = saves + 1
    /\ UNCHANGED <<bundled, user>>

\* a call of load_custom_prompt(name), right after a save or on its own
Load(name) ==
    /\ op.kind \in {"idle", "save"}
    /\ op' = [kind |-> "load", name |-> name, after |-> op,
              result |-> load_custom_prompt(custom, name)]
    /\ UNCHANGED <<bundled, user, custom, saves>>

NextStore ==
    \/ \E name \in StoreNames, content \in StoreContents : Save(name, content)
    \/ \E name \in StoreNames : Load(name)
    \/ Return

SpecStore == InitStore /\ [][NextStore]_vars

-----------------------------------------------------------------------------
(* SpecParse: command strings handed to parse_pipeline.                    *)

\* longest command string built from single atoms
MaxAtoms == 4

\* what stands between two commands of a pipeline
PipeSeparators ==
    {<<SP, PIPE, SP>>,
     <<SP, SP, PIPE, SP, SP>>,
     <<SP, SP, PIPE, SP>>,
     <<SP, PIPE, NL>>,
     <<PIPE>>}

\* the command strings parsed
PipelineInputs ==
    SeqsUpTo({"a", SP, PIPE}, MaxAtoms)
    \cup {lead \o <<"a">> \o s1 \o <<"b">> \o s2 \o <<"c">> \o trail :
            lead \in {<<>>, <<SP, SP>>}, trail \in {<<>>, <<SP, SP>>},
            s1 \in PipeSeparators, s2 \in PipeSeparators}
    \cup {<<"git", SP, "commit", SP, PIPE, SP, "review">>,
          <<"echo", SP, "hello", PIPE, "world">>,
          <<PIPE, SP, "a", SP, PIPE, SP, "b", SP, PIPE>>,
          <<"notes", SP, "add">>,
          <<"notes", SP, "add", SP, "a", SP, PIPE, SP, "b">>,
          <<"NOTES", SP, "SAVE", NL, "a", SP, PIPE, SP, "b">>,
          <<"notes", SP, "add", PIPE, "a", SP, PIPE, SP, "b">>,
          <<"notes", SP, "a", SP, PIPE, SP, "b">>,
          <<"notes", SP, "added", SP, "a", SP, PIPE, SP, "b">>,
          <<"notes", SP, SP, "add", SP, "a", SP, PIPE, SP, "b">>,
          <<SP, "Notes", SP, "Add", SP, PIPE, SP, "a", SP, PIPE, NL>>,
          <<"a", PIPE, "b", SP, PIPE, SP, "c", PIPE, "a">>,
          <<NL, SP, CR>>}

\* a call of parse_pipeline(command_string)
Parse(command_string) ==
    /\ op.kind = "idle"
    /\ op' = [kind |-> "parse", input |-> command_string,
              result |-> parse_pipeline(command_string)]
    /\ UNCHANGED <<bundled, user, custom, saves>>

\* the raw commands parsed
CommandStrings ==
    SeqsUpTo({"a", "N", SP}, MaxAtoms)
    \cup {<<"GIT", SP, "commit", SP, SP, "-m", SP, "MSG">>,
          <<"git", SP, "commit">>,
          <<"prompt", SP, "N", SP, "a", SP, "--", SP, "MSG", SP>>,
          <<"notes", NL, "ADD", SP, "a">>,
          <<"help">>,
          <<"git", SP, SP>>,
          <<SP, "git", SP, "x">>,
          <<NL, SP>>}

\* a call of parse_command(raw_command)
ParseCommand(raw_command) ==
    /\ op.kind = "idle"
    /\ op' = [kind |-> "command", input |-> raw_command,
              result |-> parse_command(raw_command)]
    /\ UNCHANGED <<bundled, user, custom, saves>>

InitParse ==
    /\ bundled = EmptyTier
    /\ user = EmptyTier
    /\ custom = EmptyTier
    /\ op = Idle
    /\ saves = 0

NextParse ==
    \/ \E command_string \in PipelineInputs : Parse(command_string)
    \/ \E raw_command \in CommandStrings : ParseCommand(raw_command)
    \/ Return

SpecParse == InitParse /\ [][NextParse]_vars

-----------------------------------------------------------------------------
(* SpecFrontmatter: texts handed to parse_frontmatter.                     *)

\* most lines of a text built from FmLines
MaxFmLines == 4

\* the lines the texts are built from
FmLines ==
    {<<DASHES>>, <<DASHES, SP>>, <<"merge_strategy: append">>,
     <<"invalid: yaml: content:">>, <<"W">>, <<>>}

\* the texts parsed: up to MaxFmLines lines joined by newlines, with and without a
\* final newline, and the documents of the tiers
FrontmatterTexts ==
    {Join(lines, <<NL>>) \o end : lines \in SeqsUpTo(FmLines, MaxFmLines), end \in {<<>>, <<NL>>}}
    \cup BundledDocs \cup CustomDocs
    \cup {<<DASHES, SP, NL, "subcommands:", NL, DASHES, SP, SP, NL, "W">>,
          <<DASHES, NL, "invalid: yaml: content:", NL, DASHES, SP, NL, "W", NL>>,
          <<DASHES, NL, "merge_strategy: append", NL, DASHES>>,
          <<"W", NL>> \o Fm(<<"merge_strategy: append">>),
          <<DASHES, NL, "merge_strategy: append", NL, "- item", NL, DASHES, NL, "W">>,
          <<DASHES, NL, NL, DASHES, NL, "W">>}

InitFrontmatter ==
    /\ bundled = EmptyTier
    /\ user = EmptyTier
    /\ custom = EmptyTier
    /\ op = Idle
    /\ saves = 0

\* a call of parse_frontmatter(content)
ParseFrontmatter(content) ==
    /\ op.kind = "idle"
    /\ op' = [kind |-> "frontmatter", input |-> content,
              result |-> parse_frontmatter(content)]
    /\ UNCHANGED <<bundled, user, custom, saves>>

NextFrontmatter ==
    \/ \E content \in FrontmatterTexts : ParseFrontmatter(content)
    \/ Return

SpecFrontmatter == InitFrontmatter /\ [][NextFrontmatter]_vars

-----------------------------------------------------------------------------
(* SpecRun: the run_pal_command tool (registry.py _handle_run_command): the *)
(* pipeline is split, then its segments are parsed and dispatched in a for  *)
(* loop, one iteration per step.                                            *)

\* "\n\n---\n\n" between two outputs of the joined text
Separator == [kind |-> "separator", text |-> <<NL, NL, DASHES, NL, NL>>]

\* the text returned for an empty pipeline
NoCommandProvided == <<[kind |-> "error", text |-> <<"Error: No command provided">>]>>

\* "\n\n---\n\n".join(results): the outputs with the separator between them
JoinResults(results) == Join([i \in 1..Len(results) |-> <<results[i]>>], <<Separator>>)

\* bundled tiers of the runs
RunBundled ==
    {EmptyTier,
     MkTier(<<<<<<Tn>>, <<"B">>>>>>),
     MkTier(<<<<<<Troot>>, <<"R">>>>, <<<<Tn>>, <<"B">>>>, <<<<Tn, Ta>>, <<"Ba">>>>>>)}

\* custom tiers of the runs
RunCustom ==
    {EmptyTier,
     MkTier(<<<<<<Tn>>, <<"W">>>>>>),
     MkTier(<<<<<<Tn>>, Fm(<<"- item">>) \o <<"W">>>>>>)}

\* the command strings run
RunInputs ==
    {<<>>,
     <<SP, SP>>,
     <<"echo", SP, "hi">>,
     <<"echo", SP, "hi", SP, PIPE, SP, "x">>,
     <<SP, "ECHO", SP, "hi", SP, PIPE, SP, "N", SP, "a", SP, PIPE, SP, "echo", NL>>,
     <<"echo", SP, "hi", SP, SP, PIPE, SP, SP, "x">>,
     <<"echo", SP, "a", PIPE, "b">>,
     <<PIPE, SP, "a", SP, PIPE, SP, "b", SP, PIPE>>,
     <<"n">>,
     <<"n", SP, PIPE, SP, "echo", SP, "hi", SP, PIPE, SP, "n", SP, "a">>,
     <<"m", SP, PIPE, SP, "n">>,
     <<"prompt", SP, "m", SP, "--", SP, "W", SP, PIPE, SP, "m">>,
     <<"m", SP, PIPE, SP, "prompt", SP, "m", SP, "--", SP, "W", SP, PIPE, SP, "m">>,
     <<"prompt", SP, "n", SP, "--", SP, "V", SP, PIPE, SP, "prompt", SP, "n", SP, PIPE, SP, "n">>,
     <<"prompt", SP, PIPE, SP, "help", SP, PIPE, SP, "n", SP, "help">>}

InitRun ==
    /\ bundled \in RunBundled
    /\ user = EmptyTier
    /\ custom \in RunCustom
    /\ op = Idle
    /\ saves = 0

\* _handle_run_command up to the for loop: the argument is stripped and split
RunCommand(command_string) ==
    /\ op.kind = "idle"
    /\ \E pipeline \in {parse_pipeline(Strip(command_string))} :
        op' = [kind |-> IF pipeline = <<>> THEN "ran" ELSE "run",
               input |-> command_string, pipeline |-> pipeline,
               results |-> <<>>, stores |-> <<custom>>,
               text |-> IF pipeline = <<>> THEN NoCommandProvided ELSE <<>>]
    /\ UNCHANGED <<bundled, user, custom, saves>>

\* one iteration of the for loop: the next segment is parsed and dispatched, its
\* output appended to results; an exception ends the call
RunSegment ==
    /\ op.kind = "run"
    /\ Len(op.results) < Len(op.pipeline)
    /\ \E parsed \in {parse_command(op.pipeline[Len(op.results) + 1])} :
        \E r \in {execute_command(bundled, user, custom, parsed.command)} :
            IF parsed.kind = "raise" \/ r.kind = "raise"
            THEN /\ op' = [op EXCEPT !.kind = "raised"]
                 /\ UNCHANGED custom
            ELSE /\ op' = [op EXCEPT !.results = Append(@, r.output),
                                     !.stores = Append(@, r.custom)]
                 /\ custom' = r.custom
    /\ UNCHANGED <<bundled, user, saves>>

\* after the loop: the outputs are joined and returned
RunReturn ==
    /\ op.kind = "run"
    /\ Len(op.results) = Len(op.pipeline)
    /\ op' = [op EXCEPT !.kind = "ran", !.text = JoinResults(op.results)]
    /\ UNCHANGED <<bundled, user, custom, saves>>

\* the tool call is over; the next one may start
Respond ==
    /\ op.kind \in {"ran", "raised"}
    /\ op' = Idle
    /\ UNCHANGED <<bundled, user, custom, saves>>

NextRun ==
    \/ \E command_string \in RunInputs : RunCommand(command_string)
    \/ RunSegment
    \/ RunReturn
    \/ Respond

SpecRun == InitRun /\ [][NextRun]_vars

-----------------------------------------------------------------------------
(* Claims about the resolver and the walker (SpecResolve).                 *)

\* the text of the document stored at path in a tier, as the program reads it
TextOf(tier, path) == read_text(tier[path])

\* the frontmatter of the document stored at path in a tier
FmOf(tier, path) ==
    IF path \in DOMAIN tier THEN parse_frontmatter(TextOf(tier, path)).fm ELSE EmptyDict

\* the frontmatter declares a subcommands mapping
DeclaresSubs(fm) ==
    fm.t = "map" /\ "subcommands" \in DOMAIN fm.m /\ fm.m["subcommands"].t = "keys"

\* the frontmatters of the stored documents the document resolved at path is made of
MadeOf(path) ==
    LET inB == path \in DOMAIN bundled
        inC == path \in DOMAIN custom
    IN  IF inB /\ inC
        THEN IF get_merge_strategy(FmOf(custom, path)) \in {"append", "prepend"}
             THEN {FmOf(bundled, path), FmOf(custom, path)}
             ELSE {FmOf(custom, path)}
        ELSE IF inB THEN {FmOf(bundled, path)}
        ELSE IF inC THEN {FmOf(custom, path)}
        ELSE {}

WalkDone == op.kind = "walk" /\ op.result.kind = "ok"

\* C1: whenever the document resolved for the current path declares a subcommands
\* mapping (bundled only, custom only, or a merge under any strategy), the walker
\* goes on to the next token only if that token is a key of the mapping.
C1_SubcommandsGateEveryTier ==
    WalkDone =>
        \A i \in 1..(Len(op.result.prompts) - 1) :
            \A fm \in MadeOf(SubSeq(op.tokens, 1, i)) :
                DeclaresSubs(fm) => op.tokens[i + 1] \in fm.m["subcommands"].keys

ResolveBoth ==
    /\ op.kind = "resolve"
    /\ op.path \in DOMAIN bundled
    /\ op.path \in DOMAIN custom

\* C2 restricted to writable documents whose frontmatter is a mapping (or absent):
\* resolve returns B + "\n\n" + W for append, W + "\n\n" + B for prepend and exactly W
\* for override, for a missing and for an unrecognised strategy, the strategy being
\* read from the writable document's frontmatter only (B the bundled text, W the
\* writable body).
C2_MergeLaw ==
    (ResolveBoth /\ FmOf(custom, op.path).t = "map") =>
        LET B == TextOf(bundled, op.path)
            r == parse_frontmatter(TextOf(custom, op.path))
            W == r.body
            declared == IF "merge_strategy" \in DOMAIN r.fm.m
                        THEN r.fm.m["merge_strategy"].s ELSE <<"missing">>
        IN  op.result =
                SomeText(IF declared = <<"append">> THEN B \o <<NL, NL>> \o W
                         ELSE IF declared = <<"prepend">> THEN W \o <<NL, NL>> \o B
                         ELSE W)

\* C2 as stated, for every writable document: a frontmatter block that holds no
\* mapping also names no strategy, and the claim has resolve return exactly W.
C2_MergeLawEveryDocument ==
    ResolveBoth =>
        LET B == TextOf(bundled, op.path)
            r == parse_frontmatter(TextOf(custom, op.path))
            W == r.body
            declared == IF r.fm.t = "map" /\ "merge_strategy" \in DOMAIN r.fm.m
                        THEN r.fm.m["merge_strategy"].s ELSE <<"missing">>
        IN  op.result =
                SomeText(IF declared = <<"append">> THEN B \o <<NL, NL>> \o W
                         ELSE IF declared = <<"prepend">> THEN W \o <<NL, NL>> \o B
                         ELSE W)

\* a merge under append of a bundled document that itself names another strategy
C2_Witness ==
    /\ ResolveBoth
    /\ FmOf(bundled, op.path).t = "map"
    /\ "merge_strategy" \in DOMAIN FmOf(bundled, op.path).m
    /\ get_merge_strategy(FmOf(custom, op.path)) = "append"
    /\ op.result = SomeText(TextOf(bundled, op.path) \o <<NL, NL, "W">>)

\* C3: resolve returns null exactly when neither tier has a document at the path;
\* with only the bundled one it returns the bundled text verbatim, with only the
\* writable one the writable text without its frontmatter block.
C3_NullIffAbsent ==
    op.kind = "resolve" =>
        LET inB == op.path \in DOMAIN bundled
            inC == op.path \in DOMAIN custom
        IN  /\ op.result.kind = "none" <=> (~inB /\ ~inC)
            /\ (inB /\ ~inC) => op.result = SomeText(TextOf(bundled, op.path))
            /\ (inC /\ ~inB) => op.result = SomeText(parse_frontmatter(TextOf(custom, op.path)).body)

\* an empty writable document alone at the path is reported as the empty text
C3_Witness ==
    /\ op.kind = "resolve"
    /\ op.path \in DOMAIN custom
    /\ op.path \notin DOMAIN bundled
    /\ custom[op.path] = <<>>
    /\ op.result = SomeText(<<>>)

\* C4: a walk that consumed k tokens returns the k entries tokens[1], tokens[1]/tokens[2],
\* ... in order, each resolving, and leftover is tokens[k+1..] joined by single spaces,
\* the token that failed to resolve included.
C4_ChainAndLeftover ==
    WalkDone =>
        LET k == Len(op.result.prompts)
        IN  /\ k <= Len(op.tokens)
            /\ \A i \in 1..k :
                /\ op.result.prompts[i].path = Join(SubSeq(op.tokens, 1, i), <<"/">>)
                /\ load_merged_prompt(bundled, custom, SubSeq(op.tokens, 1, i))
                       = SomeText(op.result.prompts[i].content)
            /\ op.result.user_input = Join(SubSeq(op.tokens, k + 1, Len(op.tokens)), <<SP>>)

\* only n resolves: [n, b, x] gives a chain of length 1 and leftover "b x"
C4_Witness ==
    /\ WalkDone
    /\ op.tokens = <<Tn, Tb, Tx>>
    /\ Len(op.result.prompts) = 1
    /\ load_merged_prompt(bundled, custom, <<Tn, Tb>>).kind = "none"
    /\ op.result.user_input = <<"b", SP, "x">>

-----------------------------------------------------------------------------
(* Claims about the dispatcher (Spec).                                     *)

Dispatched == op.kind = "dispatch"

\* C5: a dispatched command whose namespace is echo returns rest verbatim (the empty
\* string for an empty rest) and is answered by the echo handler, whatever documents
\* the tiers hold and whatever rest begins with; the custom tier is left as it was.
C5_EchoVerbatim ==
    (Dispatched /\ op.command.namespace = Techo) =>
        /\ op.result = [kind |-> "ok", fallback |-> FALSE,
                        output |-> [kind |-> "echo", text |-> op.command.rest]]
        /\ custom = op.before

\* echo --help with a bundled and a custom document named echo
C5_Witness ==
    /\ Dispatched
    /\ op.command = ParsedCommand(Techo, <<"--help">>)
    /\ <<Techo>> \in DOMAIN bundled
    /\ <<Techo>> \in DOMAIN custom
    /\ op.result.output = [kind |-> "echo", text |-> <<"--help">>]

\* C6: execute_command returns a text result and never raises, for every command
\* and every content of the tiers.
C6_DispatchNeverRaises == Dispatched => op.result.kind = "ok"

\* C7: the creation syntax printed for a namespace that resolves in no tier, when
\* dispatched as printed, saves a custom document for the namespace, after which
\* the namespace resolves.
C7_HintCreatesDocument ==
    (Dispatched /\ op.followup # <<>>) =>
        /\ op.result.kind = "ok"
        /\ op.result.output.kind = "prompt_saved"
        /\ op.followup \in DOMAIN custom
        /\ load_prompt_chain(bundled, custom, op.followup).prompts # <<>>

\* C9: the prompt command with a name and no content answers "Prompt not found"
\* only when the name resolves in no tier (the merged bundled+custom lookup finds
\* nothing at the path of the name).
C9_NotFoundOnlyWhenNowhere ==
    (Dispatched /\ op.result.kind = "ok" /\ op.result.output.kind = "prompt_not_found") =>
        load_merged_prompt(bundled, op.before, Split(op.result.output.name)).kind = "none"

-----------------------------------------------------------------------------
(* Claims about the custom prompt store (SpecStore).                       *)

\* C8: for a name of one or more tokens, save_custom_prompt(name, content) followed
\* by load_custom_prompt(name) returns the saved content with each backslash-n
\* replaced by a newline, and the document is stored at the path of the name's tokens.
C8_SaveLoadRoundTrip ==
    (op.kind = "load" /\ op.after.kind = "save" /\ op.after.name = op.name
        /\ Split(op.name) # <<>>) =>
        /\ op.result = SomeText(ReplaceEscapedNewlines(op.after.content))
        /\ Split(op.name) \in DOMAIN custom

-----------------------------------------------------------------------------
(* Claims about the pipeline parser (SpecParse).                           *)

\* the last atom before position i that is not whitespace, "" when there is none
WordBefore(s, i) ==
    LET l == RStrip(SubSeq(s, 1, i - 1)) IN IF l = <<>> THEN "" ELSE l[Len(l)]

\* the first atom after position i that is not whitespace, "" when there is none
WordAfter(s, i) ==
    LET r == LStrip(Drop(s, i + 1)) IN IF r = <<>> THEN "" ELSE r[1]

\* the pipes of s with whitespace on both sides that stand between two word tokens
DelimiterPipes(s) ==
    {i \in 2..(Len(s) - 1) :
        /\ s[i] = PIPE /\ IsSpace(s[i - 1]) /\ IsSpace(s[i + 1])
        /\ WordBefore(s, i) # "" /\ IsWord(WordBefore(s, i))
        /\ WordAfter(s, i) # "" /\ IsWord(WordAfter(s, i))}

\* s cut at the pipes of DelimiterPipes, from position `from` on, each piece trimmed
RECURSIVE CommandsOf(_, _)
CommandsOf(s, from) ==
    LET ds == {i \in DelimiterPipes(s) : i >= from}
    IN  IF ds = {} THEN <<Strip(SubSeq(s, from, Len(s)))>>
        ELSE <<Strip(SubSeq(s, from, Min(ds) - 1))>> \o CommandsOf(s, Min(ds) + 1)

\* the leading tokens of s are a content-consuming command, whatever their case
LeadsContentConsuming(s) ==
    /\ Len(Split(s)) >= 2
    /\ Lower(Split(s)[1]) \o <<SP>> \o Lower(Split(s)[2]) \in CONTENT_CONSUMING_COMMANDS

\* C11: when the leading tokens of the input are a content-consuming command,
\* parse_pipeline returns exactly one segment, the trimmed input, whatever pipes follow.
C11_ContentConsumingNeverSplit ==
    (op.kind = "parse" /\ LeadsContentConsuming(op.input)) =>
        op.result = <<Strip(op.input)>>

\* the pipes of s glued to a word on both sides
GluedPipes(s) ==
    {i \in 2..(Len(s) - 1) : s[i] = PIPE /\ IsWord(s[i - 1]) /\ IsWord(s[i + 1])}

\* the number of glued pipes inside the segments
RECURSIVE GluedIn(_)
GluedIn(segments) ==
    IF segments = <<>> THEN 0
    ELSE Cardinality(GluedPipes(Head(segments))) + GluedIn(Tail(segments))

\* C12: a trimmed input that starts or ends with a pipe comes back as the one segment
\* equal to the trimmed input; and no split happens at a pipe glued to its adjacent
\* words: every such pipe is found inside a returned segment.
C12_TableGuardAndGluedPipes ==
    op.kind = "parse" =>
        /\ (StartsWith(Strip(op.input), <<PIPE>>) \/ EndsWith(Strip(op.input), <<PIPE>>))
               => op.result = <<Strip(op.input)>>
        /\ GluedIn(op.result) = Cardinality(GluedPipes(op.input))

\* a table row with " | " between words, returned whole
C12_Witness ==
    /\ op.kind = "parse"
    /\ op.input = <<PIPE, SP, "a", SP, PIPE, SP, "b", SP, PIPE>>
    /\ op.result = <<op.input>>

\* C13: parse_pipeline returns the empty sequence for an empty and for a
\* whitespace-only input, and no returned segment is empty or has leading or
\* trailing whitespace.
C13_SegmentsTrimmedNonEmpty ==
    op.kind = "parse" =>
        /\ Strip(op.input) = <<>> => op.result = <<>>
        /\ \A i \in 1..Len(op.result) :
            /\ op.result[i] # <<>>
            /\ Strip(op.result[i]) = op.result[i]

\* a whitespace-only input gives no segment
C13_Witness ==
    /\ op.kind = "parse"
    /\ op.input = <<SP, SP>>
    /\ op.result = <<>>

\* C10: for a non-empty input that starts with no content-consuming prefix and neither
\* starts nor ends with a pipe, parse_pipeline returns the commands separated by the
\* pipes that stand between two word tokens, trimmed, however much whitespace
\* surrounds each such pipe.
C10_SplitRegardlessOfWhitespace ==
    (/\ op.kind = "parse"
     /\ Strip(op.input) # <<>>
     /\ ~is_content_consuming_command(Strip(op.input))
     /\ ~StartsWith(Strip(op.input), <<PIPE>>)
     /\ ~EndsWith(Strip(op.input), <<PIPE>>)) =>
        op.result = CommandsOf(op.input, 1)

\* every atom of s is whitespace
AllSpace(s) == \A i \in 1..Len(s) : IsSpace(s[i])

C15_NamespaceEmptyIffSegmentEmpty ==
    op.kind = "command" =>
        /\ op.result.kind = "ok"
        /\ op.result.command.namespace = <<>> <=> op.input = <<>>
        /\ ~ParsedCommand_bool(op.result.command) <=> op.result.command.namespace = <<>>

-----------------------------------------------------------------------------
(* Claims about parse_frontmatter (SpecFrontmatter).                       *)

\* C16: parse_frontmatter never partially recovers. Without a leading block, and with
\* a block whose content fails to parse, the frontmatter is the empty mapping and the
\* body is the input unchanged; the body differs from the input only after a
\* successful parse, and is then the input with the leading block removed.
C16_NoPartialRecovery ==
    op.kind = "frontmatter" =>
        LET content == op.input
            r == op.result
            m == FmMatch(content)
        IN  /\ ~m.found => r = [fm |-> EmptyDict, body |-> content]
            /\ (m.found /\ ~SafeLoad(m.group).ok) => r = [fm |-> EmptyDict, body |-> content]
            /\ r.body # content =>
                /\ m.found /\ SafeLoad(m.group).ok
                /\ content = SubSeq(content, 1, m.end) \o r.body
                /\ content[1] = DASHES /\ content[m.end] = NL
            /\ r.body = content => r.fm = EmptyDict

\* a block whose YAML is invalid: the whole text comes back as the body
C16_Witness ==
    /\ op.kind = "frontmatter"
    /\ op.input = Fm(<<"invalid: yaml: content:">>) \o <<"W">>
    /\ op.result = [fm |-> EmptyDict, body |-> op.input]

-----------------------------------------------------------------------------
(* Claims about run_pal_command (SpecRun).                                 *)

\* the tool call has ended, with a text or with an exception
RunOver == op.kind \in {"ran", "raised"}

\* the output of segment i dispatched on the custom tier c
OutputOn(c, i) ==
    execute_command(bundled, user, c, parse_command(op.pipeline[i]).command).output

\* the results so far are the outputs of the segments in pipeline order, each
\* dispatched on the store its predecessor left
InOrder ==
    \A i \in 1..Len(op.results) :
        /\ op.results[i] = OutputOn(op.stores[i], i)
        /\ op.stores[i + 1] =
               execute_command(bundled, user, op.stores[i],
                               parse_command(op.pipeline[i]).command).custom

\* C17 for the calls that return: the text is the n outputs in segment order joined
\* by the separator, each segment dispatched once, after its predecessor; an empty
\* pipeline gives "Error: No command provided".
C17_JoinedInOrder ==
    op.kind = "ran" =>
        /\ op.pipeline = parse_pipeline(Strip(op.input))
        /\ Len(op.results) = Len(op.pipeline)
        /\ InOrder
        /\ op.pipeline = <<>> => op.text = NoCommandProvided
        /\ op.pipeline # <<>> =>
            /\ Len(op.text) = 2 * Len(op.pipeline) - 1
            /\ \A i \in 1..Len(op.pipeline) : op.text[2 * i - 1] = op.results[i]
            /\ \A i \in 1..(Len(op.pipeline) - 1) : op.text[2 * i] = Separator

\* C17: every call on an input with n >= 1 segments ends with the n outputs joined in
\* segment order, and every call on an input without segments with the error text.
C17_EveryRunJoinsOutputs ==
    /\ C17_JoinedInOrder
    /\ RunOver => op.kind = "ran"

\* "echo hi | x" starts with exactly "hi" followed by the separator
C17_Witness ==
    /\ op.kind = "ran"
    /\ op.input = <<"echo", SP, "hi", SP, PIPE, SP, "x">>
    /\ Len(op.text) = 3
    /\ op.text[1] = [kind |-> "echo", text |-> <<"hi">>]
    /\ op.text[2] = Separator

\* C20: the output of a segment depends only on the segment and on the document
\* store as it was when the pipeline started: it is the output the segment gives
\* when dispatched on that store.
C20_SegmentsIndependent ==
    op.kind \in {"run", "ran", "raised"} =>
        \A i \in 1..Len(op.results) : op.results[i] = OutputOn(op.stores[1], i)

-----------------------------------------------------------------------------
(* C18: a save under an empty or whitespace-only name.                     *)

\* a call of save_custom_prompt has returned or raised
Saved == op.kind = "save"

\* C18 (first half): a save under the empty name returns the "Error:" string
\* and leaves every custom document as it was
C18_EmptyNameIsAnError ==
    (Saved /\ op.name = <<>>) =>
        /\ op.result.kind = "ok"
        /\ op.result.message.error
        /\ custom = op.before

\* C18: a save under a name without any token (the empty name, a name made of
\* whitespace only) returns a string starting with "Error:", does not raise,
\* and leaves the custom tier unchanged
C18_InvalidNameIsAnError ==
    (Saved /\ name_to_path(op.name) = <<>>) =>
        /\ op.result.kind = "ok"
        /\ op.result.message.error
        /\ custom = op.before

-----------------------------------------------------------------------------
(* C19: which commands change which documents.                             *)

\* the name and the content a prompt command carries, both empty when the
\* command is not a prompt command with " -- " in its rest
SaveRequest(command) ==
    IF command.namespace = Tprompt /\ Contains(command.rest, <<SP, "--", SP>>)
    THEN [name |-> Strip(SplitDashes(command.rest).name_part),
          content |-> SplitDashes(command.rest).prompt_content]
    ELSE [name |-> <<>>, content |-> <<>>]

\* the paths at which the tiers c and d differ: a document present in one only,
\* or present in both with different contents
ChangedPaths(c, d) ==
    {p \in DOMAIN c \cup DOMAIN d :
        \/ p \notin DOMAIN c
        \/ p \notin DOMAIN d
        \/ c[p] # d[p]}

\* C19: no step writes the bundled tier or the user tier; a step changes the custom
\* tier only when it dispatches a prompt command carrying both a name and a content,
\* and then the one document it changes is the custom document of exactly that name;
\* echo, help, namespaced help, prompt list, prompt show and every fallback command
\* leave every document of every tier as it was.
C19_OnlySavesWriteDocuments ==
    [][/\ bundled' = bundled
       /\ user' = user
       /\ custom' # custom =>
            /\ op'.kind = "dispatch"
            /\ op'.result.kind = "ok"
            /\ ~op'.result.fallback
            /\ op'.result.output.kind = "prompt_saved"
            /\ SaveRequest(op'.command).name # <<>>
            /\ SaveRequest(op'.command).content # <<>>
            /\ ChangedPaths(custom, custom') = {name_to_path(SaveRequest(op'.command).name)}
       /\ (op'.kind = "dispatch" /\ op'.result.kind = "ok"
             /\ op'.result.output.kind # "prompt_saved") => custom' = custom]_vars

\* a save of "n a" into a custom tier that already holds other documents, next to
\* a bundled tier with documents: the one document written is custom n/a
C19_Witness ==
    /\ Dispatched
    /\ op.result.kind = "ok"
    /\ op.result.output.kind = "prompt_saved"
    /\ SaveRequest(op.command).name = <<"n", SP, "a">>
    /\ <<Tn, Ta>> \in DOMAIN bundled
    /\ op.before # EmptyTier
    /\ ChangedPaths(op.before, custom) = {<<Tn, Ta>>}

-----------------------------------------------------------------------------
(* SpecConcurrent: save_custom_prompt and load_custom_prompt called from    *)
(* several threads on one custom directory.  A call is a sequence of file   *)
(* system operations; the operations of different calls interleave.         *)

\* threads calling into the loader
MaxThreads == 3

Threads == 1..MaxThreads

\* names saved and loaded concurrently
ConcurrentNames == {<<"foo">>, <<"foo", SP, "bar">>}

\* contents saved concurrently: different lengths, one with an escaped newline
ConcurrentContents == {<<"A", "A">>, <<"B">>, <<"C", "\\n", "C">>}

\* a thread that has not called yet
ThreadIdle == [pc |-> "idle", job |-> "none", name |-> <<>>, content |-> <<>>, result |-> NoText]

\* open(path, "w"): the file is created or truncated (O_CREAT | O_TRUNC)
OpenTruncate(c, path) == WriteText(c, path, <<>>)

\* one write() of data at offset 0 of the open file; what the file holds beyond
\* the data stays
WriteAtStart(c, path, data) == WriteText(c, path, data \o Drop(c[path], Len(data) + 1))

\* the directories mkdir(parents=True, exist_ok=True) makes for the parent of path
ParentDirs(path) == {SubSeq(path, 1, i) : i \in 1..(Len(path) - 1)}

InitConcurrent ==
    /\ bundled = EmptyTier
    /\ user = EmptyTier
    /\ custom = EmptyTier
    /\ op = [kind |-> "threads", th |-> [t \in Threads |-> ThreadIdle],
             dirs |-> {}, last |-> EmptyTier]
    /\ saves = 0

\* thread t calls save_custom_prompt(name, content): the name test, the
\* replacement of escaped newlines and _name_to_path
SaveCall(t, name, content) ==
    /\ op.kind = "threads"
    /\ op.th[t].pc = "idle"
    /\ op' = [op EXCEPT !.th[t] =
                 [pc |-> IF name = <<>> \/ name_to_path(name) = <<>> THEN "done" ELSE "mkdir",
                  job |-> "save", name |-> name,
                  content |-> ReplaceEscapedNewlines(content),
                  result |-> IF name = <<>> THEN NoText
                             ELSE IF name_to_path(name) = <<>> THEN Raised
                             ELSE NoText]]
    /\ saves' = saves + 1
    /\ UNCHANGED <<bundled, user, custom>>

\* file_path.parent.mkdir(parents=True, exist_ok=True)
SaveMkdir(t) ==
    /\ op.kind = "threads"
    /\ op.th[t].pc = "mkdir"
    /\ op' = [op EXCEPT !.th[t].pc = "open",
                        !.dirs = @ \cup ParentDirs(name_to_path(op.th[t].name))]
    /\ UNCHANGED <<bundled, user, custom, saves>>

\* write_text, first half: the file is opened for writing
SaveOpen(t) ==
    /\ op.kind = "threads"
    /\ op.th[t].pc = "open"
    /\ custom' = OpenTruncate(custom, name_to_path(op.th[t].name))
    /\ op' = [op EXCEPT !.th[t].pc = "write"]
    /\ UNCHANGED <<bundled, user, saves>>

\* write_text, second half: the content is written and the file closed;
\* save_custom_prompt returns
SaveWrite(t) ==
    /\ op.kind = "threads"
    /\ op.th[t].pc = "write"
    /\ custom' = WriteAtStart(custom, name_to_path(op.th[t].name), op.th[t].content)
    /\ op' = [op EXCEPT !.th[t].pc = "done",
                        !.last = WriteText(@, name_to_path(op.th[t].name), op.th[t].content)]
    /\ UNCHANGED <<bundled, user, saves>>

\* thread t calls load_custom_prompt(name): _name_to_path and file_path.exists()
LoadCall(t, name) ==
    /\ op.kind = "threads"
    /\ op.th[t].pc = "idle"
    /\ op' = [op EXCEPT !.th[t] =
                 [pc |-> IF name_to_path(name) \in DOMAIN custom THEN "read" ELSE "done",
                  job |-> "load", name |-> name, content |-> <<>>,
                  result |-> IF name_to_path(name) = <<>> THEN Raised ELSE NoText]]
    /\ UNCHANGED <<bundled, user, custom, saves>>

\* file_path.read_text(encoding="utf-8"); load_custom_prompt returns
LoadRead(t) ==
    /\ op.kind = "threads"
    /\ op.th[t].pc = "read"
    /\ op' = [op EXCEPT !.th[t].pc = "done",
                        !.th[t].result = SomeText(read_text(custom[name_to_path(op.th[t].name)]))]
    /\ UNCHANGED <<bundled, user, custom, saves>>

NextConcurrent ==
    \/ \E t \in Threads, name \in ConcurrentNames, content \in ConcurrentContents :
            SaveCall(t, name, content)
    \/ \E t \in Threads : SaveMkdir(t)
    \/ \E t \in Threads : SaveOpen(t)
    \/ \E t \in Threads : SaveWrite(t)
    \/ \E t \in Threads, name \in ConcurrentNames : LoadCall(t, name)
    \/ \E t \in Threads : LoadRead(t)

SpecConcurrent == InitConcurrent /\ [][NextConcurrent]_vars

-----------------------------------------------------------------------------
(* C21: concurrent saves and loads.                                        *)

\* no call is in progress
Quiescent == op.kind = "threads" /\ \A t \in Threads : op.th[t].pc \in {"idle", "done"}

\* the threads that save to, or load from, the path
SaversOf(path) ==
    {t \in Threads : op.th[t].job = "save" /\ name_to_path(op.th[t].name) = path}

\* the loads that have returned
LoadsDone == {t \in Threads : op.th[t].job = "load" /\ op.th[t].pc = "done"}

\* C21: once no call is in progress every saved path holds the complete content of
\* the save that wrote it last, and every load that has returned gave not-found or
\* the complete content of one save to its path
C21_LastWriteWinsCompleteLoads ==
    op.kind = "threads" =>
        /\ Quiescent => \A p \in DOMAIN custom : custom[p] = op.last[p]
        /\ \A t \in LoadsDone :
              \/ op.th[t].result.kind = "none"
              \/ /\ op.th[t].result.kind = "ok"
                 /\ \E w \in SaversOf(name_to_path(op.th[t].name)) :
                        op.th[t].result.text = op.th[w].content

\* C21 (third part): once no call is in progress, a path saved by one thread only
\* holds that save's content, whatever the other threads saved elsewhere
C21_DistinctPathsIndependent ==
    Quiescent =>
        \A p \in DOMAIN custom :
            \A w \in SaversOf(p) :
                SaversOf(p) = {w} => custom[p] = op.th[w].content

-----------------------------------------------------------------------------
(* SpecHelp: handle_help called on commands of every shape, on tiers with   *)
(* children in the bundled, user and custom directories.                    *)

Tc == <<"c">>
Td == <<"d">>

HelpBundled ==
    {EmptyTier,
     MkTier(<<<<<<Tn>>, <<"B">>>>, <<<<Tn, Ta>>, <<"Ba">>>>, <<<<Tn, Tb>>, <<"Bb">>>>>>),
     MkTier(<<<<<<Tn, Ta>>, <<"Ba">>>>, <<<<Tm>>, <<"M">>>>>>)}

HelpUser ==
    {EmptyTier,
     MkTier(<<<<<<Tn, Ta>>, <<"Ua">>>>, <<<<Tn, Tc>>, <<"Uc">>>>>>),
     MkTier(<<<<<<Tm, Ta>>, <<"Ua">>>>>>)}

\* custom tiers: a child also bundled, a child of its own, a grandchild
HelpCustom ==
    {EmptyTier,
     MkTier(<<<<<<Tn, Tb>>, <<"Wb">>>>, <<<<Tn, Td>>, <<"Wd">>>>>>),
     MkTier(<<<<<<Tn>>, <<"W">>>>, <<<<Tn, Ta, Tx>>, <<"Wx">>>>>>)}

\* rests: help words and flags, words that only begin like them, help further on
HelpRests ==
    {<<>>,
     <<"help">>,
     <<SP, "help", SP, "x">>,
     <<NL, "help">>,
     <<"--help">>,
     <<SP, "--help", SP, "a">>,
     <<"--help", "x">>,
     <<"help", "er">>,
     <<"a", SP, "help">>,
     <<"a", SP, "--help">>,
     <<"-", "help">>}

HelpCommands == {ParsedCommand(ns, rest) : ns \in {Tn, Tm, Tx}, rest \in HelpRests}

InitHelp ==
    /\ bundled \in HelpBundled
    /\ user \in HelpUser
    /\ custom \in HelpCustom
    /\ op = Idle
    /\ saves = 0

\* a call of handle_help(command)
Help(command) ==
    /\ op.kind = "idle"
    /\ \E r \in {handle_help(bundled, user, custom, command)} :
        op' = [kind |-> "help", command |-> command,
               result |-> [handled |-> r.handled, output |-> r.output]]
    /\ custom' = custom
    /\ UNCHANGED <<bundled, user, saves>>

NextHelp ==
    \/ \E command \in HelpCommands : Help(command)
    \/ Return

SpecHelp == InitHelp /\ [][NextHelp]_vars

-----------------------------------------------------------------------------
(* C22: the namespaced-help handler.                                       *)

\* a call of handle_help has returned
Helped == op.kind = "help"

\* the first token of rest is the literal help, or the trimmed rest begins with --help
IsHelpRequest(rest) ==
    \/ Split(rest) # <<>> /\ Split(rest)[1] = <<"help">>
    \/ LStrip(rest) # <<>> /\ Head(LStrip(rest)) = "--help"

\* the documents found directly under the namespace in a tier
ChildrenIn(tier, namespace) ==
    {child \in {p[Len(p)] : p \in DOMAIN tier} : <<namespace, child>> \in DOMAIN tier}

C22_WitnessNotHandled ==
    /\ Helped
    /\ op.command.rest = <<"help", "er">>
    /\ ~op.result.handled

-----------------------------------------------------------------------------
(* C23: a subcommands key with an empty value.                             *)

\* the frontmatter of the resolved text has a subcommands key whose value is empty:
\* no value at all, or an empty mapping
EmptySubs(text) ==
    LET fm == parse_frontmatter(text).fm
    IN  /\ fm.t = "map"
        /\ "subcommands" \in DOMAIN fm.m
        /\ ~Truthy(fm.m["subcommands"])

C23_WitnessNoValue ==
    /\ WalkDone
    /\ op.tokens = <<Tn, Ta>>
    /\ Len(op.result.prompts) = 1
    /\ EmptySubs(op.result.prompts[1].content)
    /\ parse_frontmatter(op.result.prompts[1].content).fm.m["subcommands"] = YNull
    /\ load_merged_prompt(bundled, custom, <<Tn, Ta>>).kind = "ok"

\* the document B without the key continues greedily to n/a
C23_WitnessGreedy ==
    /\ WalkDone
    /\ op.tokens = <<Tn, Ta, Tb>>
    /\ Len(op.result.prompts) >= 2
    /\ op.result.prompts[1].content = <<"B">>

-----------------------------------------------------------------------------
(* C24: the walker terminates.                                             *)

\* a call of load_prompt_chain has returned or raised
Walked == op.kind = "walk"

\* the loop states of the walk over tokens, from the state w on
RECURSIVE WalkStates(_, _, _)
WalkStates(b, c, w) ==
    IF w.kind # "loop" THEN {w} ELSE {w} \cup WalkStates(b, c, WalkStep(b, c, w))

\* C24: every walk ends; each iteration of its loop consumes exactly one token or
\* ends the walk, so the walker makes at most one resolve call per token, at most
\* one more than the chain is long, and the chain is never longer than the token list.
C24_WalkerTerminates ==
    Walked =>
        /\ op.result.kind \in {"ok", "raise"}
        /\ op.result.calls <= Len(op.tokens)
        /\ op.result.calls <= Len(op.result.prompts) + 1
        /\ Len(op.result.prompts) <= Len(op.tokens)
        /\ \A w \in WalkStates(bundled, custom, WalkStart(op.tokens)) :
              w.kind = "loop" =>
                  LET next == WalkStep(bundled, custom, w)
                  IN  \/ next.kind # "loop"
                      \/ /\ Len(next.rest) = Len(w.rest) - 1
                         /\ Len(next.chain) = Len(w.chain) + 1
                         /\ next.calls = w.calls + 1

\* a walk in which every one of three tokens resolves: one resolve call per token
C24_Witness ==
    /\ Walked
    /\ op.tokens = <<Tn, Ta, Tb>>
    /\ op.result.kind = "ok"
    /\ Len(op.result.prompts) = Len(op.tokens)
    /\ op.result.calls = Len(op.tokens)

\* a walk ended by a failed resolve: one call more than the chain is long
C24_WitnessBreak ==
    /\ Walked
    /\ op.result.kind = "ok"
    /\ op.result.calls = Len(op.result.prompts) + 1
    /\ op.result.rest # <<>>

-----------------------------------------------------------------------------
(* C25: the order of the handlers.                                         *)

\* the order the claim fixes: echo, prompt management, global help, namespaced help
CanonicalOrder == <<"handle_echo", "handle_prompt", "handle_help_command", "handle_help">>

\* what the handler at position i of the canonical order answers to the dispatched
\* command, on the custom tier as it was before the dispatch
AnswerOf(i) == CallHandler(CanonicalOrder[i], bundled, user, op.before, op.command)

\* the positions of the handlers that answer the dispatched command
Answering == {i \in 1..Len(CanonicalOrder) : AnswerOf(i).handled}

\* C25: the output of a dispatch is that of the first handler, in the order echo,
\* prompt management, global help, namespaced help, that answers the command; the
\* fallback prompt-chain handler runs if and only if none of the four answers;
\* namespaced help never answers a command whose namespace is echo, prompt or help:
\* `prompt help` is about the prompt named help, `help --help` is the global listing.
C25_FirstHandlerWins ==
    Dispatched =>
        /\ Answering # {} =>
              /\ ~op.result.fallback
              /\ op.result.kind = AnswerOf(Min(Answering)).kind
              /\ op.result.output = AnswerOf(Min(Answering)).output
              /\ custom = AnswerOf(Min(Answering)).custom
        /\ op.result.fallback <=> Answering = {}
        /\ op.result.fallback =>
              /\ op.result.output
                    = handle_standard_prompt(bundled, user, op.before, op.command).output
              /\ custom = op.before
        /\ op.command.namespace \in BUILTIN_COMMANDS =>
              /\ ~op.result.fallback
              /\ op.result.output.kind # "namespace_help"
        /\ op.command = ParsedCommand(Tprompt, <<"help">>) =>
              /\ op.result.output.kind \in {"prompt_show", "prompt_not_found"}
              /\ op.result.output.name = <<"help">>
        /\ op.command = ParsedCommand(Thelp, <<"--help">>) => op.result.output.kind = "help"

\* `prompt help`: both the prompt handler and namespaced help would answer, the
\* prompt handler comes first
C25_Witness ==
    /\ Dispatched
    /\ op.command = ParsedCommand(Tprompt, <<"help">>)
    /\ Answering = {2, 4}
    /\ op.result.output.kind = "prompt_not_found"

\* `n help`: only namespaced help answers
C25_WitnessNamespacedHelp ==
    /\ Dispatched
    /\ op.command = ParsedCommand(Tn, <<"help">>)
    /\ Answering = {4}
    /\ op.result.output.kind = "namespace_help"

\* `n a x`: no handler answers, the fallback runs
C25_WitnessFallback ==
    /\ Dispatched
    /\ op.command = ParsedCommand(Tn, <<"a", SP, "x">>)
    /\ Answering = {}
    /\ op.result.fallback
    /\ op.result.kind = "ok"

-----------------------------------------------------------------------------
(* C26: a saved prompt, run by its name.                                   *)

\* the dispatched command was `prompt N -- C` and the save was confirmed
SaveConfirmed ==
    /\ Dispatched
    /\ op.result.kind = "ok"
    /\ op.result.output.kind = "prompt_saved"
    /\ ~op.result.output.result.error

\* what running the command N answers after the save
RunSaved == execute_command(bundled, user, custom, parse_command(op.result.output.name).command)

\* the answer is a prompt chain of the fallback handler with the given content at
\* the path
ChainHolds(r, path, content) ==
    /\ r.kind = "ok"
    /\ r.fallback
    /\ r.output.kind = "standard"
    /\ \E i \in 1..Len(r.output.prompts) :
          /\ r.output.prompts[i].path = Join(path, <<"/">>)
          /\ r.output.prompts[i].content = content

\* C26: after `prompt N -- C` confirmed the save, the command N is answered by the
\* fallback handler with a chain whose entry at path N has content C (the escaped
\* newlines of C being newlines), for every name N and every content C.
C26_SavedPromptRuns ==
    SaveConfirmed =>
        ChainHolds(RunSaved, name_to_path(op.result.output.name),
                   ReplaceEscapedNewlines(SaveRequest(op.command).content))

\* C26 for a one-token name that is no built-in command, with a content that does
\* not start with a frontmatter block
C26_PlainNameRuns ==
    (/\ SaveConfirmed
     /\ Len(name_to_path(op.result.output.name)) = 1
     /\ name_to_path(op.result.output.name)[1] \notin BUILTIN_COMMANDS
     /\ Lower(op.result.output.name) = op.result.output.name
     /\ ~FmMatch(ReplaceEscapedNewlines(SaveRequest(op.command).content)).found) =>
        ChainHolds(RunSaved, name_to_path(op.result.output.name),
                   ReplaceEscapedNewlines(SaveRequest(op.command).content))

-----------------------------------------------------------------------------
(* C27: the entries namespaced help lists, run as commands.                *)

\* what dispatching the listed entry `N child` answers
RunListed(child) ==
    execute_command(bundled, user, custom,
                    parse_command(op.command.namespace \o <<SP>> \o child).command)

\* the answer is a prompt chain that ends with the document at N/child
EndsAtChild(r, child) ==
    /\ r.kind = "ok"
    /\ r.fallback
    /\ r.output.kind = "standard"
    /\ r.output.prompts[Len(r.output.prompts)].path
           = Join(<<op.command.namespace, child>>, <<"/">>)

\* C27: every entry `N child` namespaced help lists for N, dispatched as a command,
\* yields a prompt chain whose last entry is the document at N/child, whichever tier
\* the child was listed from and whether or not a document for N exists.
C27_ListedEntriesRun ==
    (Helped /\ op.result.handled) =>
        \A child \in op.result.output.subcommands : EndsAtChild(RunListed(child), child)

\* C27 for the children listed from the bundled or the custom tier of a namespace
\* whose own document resolves and declares no subcommands
C27_ListedEntriesRunUnderResolvedParent ==
    (/\ Helped
     /\ op.result.handled
     /\ load_merged_prompt(bundled, custom, <<op.command.namespace>>).kind = "ok"
     /\ ~In("subcommands",
            parse_frontmatter(load_merged_prompt(bundled, custom,
                                                 <<op.command.namespace>>).text).fm)) =>
        \A child \in ChildrenIn(bundled, op.command.namespace)
                     \cup ChildrenIn(custom, op.command.namespace) :
            EndsAtChild(RunListed(child), child)

-----------------------------------------------------------------------------
(* C28: the frontmatter parse_frontmatter returns.                         *)

\* C28: the frontmatter parse_frontmatter returns is a key-value mapping for every
\* input text, also when the leading block parses to a scalar or to a list.
C28_FrontmatterIsMapping == op.kind = "frontmatter" => op.result.fm.t = "map"

\* C28 (second half): the lookups of merge_strategy in the resolver and of
\* subcommands in the walker never fail
C28_LookupsNeverFail == op.kind \in {"resolve", "walk"} => op.result.kind # "raise"

-----------------------------------------------------------------------------
(* C29: splitting and joining again.                                       *)

\* the positions in s of a " | " with a word character directly on both sides
WordPipes(s) ==
    {i \in 1..Len(s) :
        /\ i > 1 /\ i + 3 <= Len(s)
        /\ SubSeq(s, i, i + 2) = <<SP, PIPE, SP>>
        /\ IsWord(s[i - 1]) /\ IsWord(s[i + 3])}

\* the input starts with no content-consuming prefix and is no table row
PlainPipeline(s) ==
    /\ ~is_content_consuming_command(Strip(s))
    /\ ~StartsWith(Strip(s), <<PIPE>>)
    /\ ~EndsWith(Strip(s), <<PIPE>>)

\* C29: for an input that is neither content-consuming nor table-guarded, the
\* segments joined by " | " are the input with its outer whitespace trimmed, and no
\* segment still holds a " | " with a word character directly on both sides.
C29_JoinGivesBackInput ==
    (op.kind = "parse" /\ PlainPipeline(op.input)) =>
        /\ Join(op.result, <<SP, PIPE, SP>>) = Strip(op.input)
        /\ \A i \in 1..Len(op.result) : WordPipes(op.result[i]) = {}

\* three commands with outer whitespace: split in three, joined back to the trimmed input
C29_Witness ==
    /\ op.kind = "parse"
    /\ op.input = <<SP, SP, "a", SP, PIPE, SP, "b", SP, PIPE, SP, "c", SP, SP>>
    /\ PlainPipeline(op.input)
    /\ op.result = <<<<"a">>, <<"b">>, <<"c">>>>

\* a glued pipe and a pipe with two spaces stay inside their segments
C29_WitnessKept ==
    /\ op.kind = "parse"
    /\ op.input = <<"a", PIPE, "b", SP, PIPE, SP, "c", PIPE, "a">>
    /\ op.result = <<<<"a", PIPE, "b">>, <<"c", PIPE, "a">>>>

-----------------------------------------------------------------------------
(* OAuth manager (oauth.py OAuthManager).  The manager is its two          *)
(* dictionaries, _auth_codes and _tokens; the clock is time.time() counted *)
(* in ticks of 600 seconds.                                                *)

\* d[k] = v and del d[k] on a dictionary
DictSet(d, k, v) == [x \in DOMAIN d \cup {k} |-> IF x = k THEN v ELSE d[x]]
DictDel(d, k) == [x \in DOMAIN d \ {k} |-> d[x]]

\* AuthorizationCode.expires_in: 600 seconds, one tick
CodeExpiresIn == 1

\* settings.oauth_token_expiry, in ticks
OAuthTokenExpiry == 2

\* BASE64URL(SHA256(code_verifier)): one challenge per verifier
S256(code_verifier) == <<"S256", code_verifier>>

\* code_verifier.encode("ascii") succeeds
IsAscii(code_verifier) == code_verifier # "é"

\* _verify_pkce(code_verifier, code_challenge, code_challenge_method), for a
\* verifier that encodes
verify_pkce(code_verifier, code_challenge, code_challenge_method) ==
    IF code_challenge_method # "S256" THEN FALSE
    ELSE S256(code_verifier) = code_challenge

\* _generate_token(client_id) at time now: the signed payload names the client and
\* the times of issue and expiry
generate_token(client_id, now) == [client_id |-> client_id, iat |-> now]

\* create_authorization_code(...) returning code, at time now
create_authorization_code(m, code, client_id, redirect_uri, code_challenge, code_challenge_method, now) ==
    [m EXCEPT !.auth_codes =
        DictSet(@, code, [client_id |-> client_id, redirect_uri |-> redirect_uri,
                          code_challenge |-> code_challenge,
                          code_challenge_method |-> code_challenge_method,
                          created_at |-> now, expires_in |-> CodeExpiresIn])]

\* the answers of exchange_code
NoToken(m) == [kind |-> "none", auth_codes |-> m.auth_codes, tokens |-> m.tokens]
ExchangeRaised(m) == [kind |-> "raise", auth_codes |-> m.auth_codes, tokens |-> m.tokens]

\* exchange_code that leaves the used code in _auth_codes
exchange_code_keepcode(m, code, client_id, redirect_uri, code_verifier, now) ==
    IF code \notin DOMAIN m.auth_codes THEN NoToken(m)
    ELSE IF now > m.auth_codes[code].created_at + m.auth_codes[code].expires_in
    THEN [NoToken(m) EXCEPT !.auth_codes = DictDel(m.auth_codes, code)]
    ELSE IF m.auth_codes[code].client_id # client_id THEN NoToken(m)
    ELSE IF m.auth_codes[code].redirect_uri # redirect_uri THEN NoToken(m)
    ELSE IF m.auth_codes[code].code_challenge_method = "S256" /\ ~IsAscii(code_verifier)
    THEN ExchangeRaised(m)
    ELSE IF ~verify_pkce(code_verifier, m.auth_codes[code].code_challenge,
                         m.auth_codes[code].code_challenge_method)
    THEN NoToken(m)
    ELSE [kind |-> "token", auth_codes |-> m.auth_codes,
          tokens |-> DictSet(m.tokens, generate_token(client_id, now),
                             [client_id |-> client_id, created_at |-> now,
                              expires_in |-> OAuthTokenExpiry])]

\* exchange_code(code, client_id, redirect_uri, code_verifier) at time now:
\* [kind, auth_codes, tokens], kind "token" when generate_token(client_id, now) is returned
exchange_code(m, code, client_id, redirect_uri, code_verifier, now) ==
    IF code \notin DOMAIN m.auth_codes THEN NoToken(m)
    ELSE IF now > m.auth_codes[code].created_at + m.auth_codes[code].expires_in
    THEN [NoToken(m) EXCEPT !.auth_codes = DictDel(m.auth_codes, code)]
    ELSE IF m.auth_codes[code].client_id # client_id THEN NoToken(m)
    ELSE IF m.auth_codes[code].redirect_uri # redirect_uri THEN NoToken(m)
    ELSE IF m.auth_codes[code].code_challenge_method = "S256" /\ ~IsAscii(code_verifier)
    THEN ExchangeRaised(m)
    ELSE IF ~verify_pkce(code_verifier, m.auth_codes[code].code_challenge,
                         m.auth_codes[code].code_challenge_method)
    THEN NoToken(m)
    ELSE [kind |-> "token", auth_codes |-> DictDel(m.auth_codes, code),
          tokens |-> DictSet(m.tokens, generate_token(client_id, now),
                             [client_id |-> client_id, created_at |-> now,
                              expires_in |-> OAuthTokenExpiry])]

\* validate_token(token) at time now: [valid, tokens]
validate_token(m, token, now) ==
    IF token \notin DOMAIN m.tokens THEN [valid |-> FALSE, tokens |-> m.tokens]
    ELSE IF now > m.tokens[token].created_at + m.tokens[token].expires_in
    THEN [valid |-> FALSE, tokens |-> DictDel(m.tokens, token)]
    ELSE [valid |-> TRUE, tokens |-> m.tokens]

-----------------------------------------------------------------------------
(* SpecOAuth: create_authorization_code, exchange_code and validate_token   *)
(* called in any order while the clock advances.  op holds the manager, the *)
(* clock, the last call and the record of the tokens issued.                *)

\* the values secrets.token_urlsafe(32) returns, in the order returned
OAuthCodes == <<"code1", "code2">>

\* last tick of the clock
MaxTime == 4

OAuthClients == {"c1", "c2"}
OAuthUris == {"http://localhost/cb", "https://app/cb"}
OAuthVerifiers == {"v1", "v2", "é"}

\* the authorization requests: client, redirect URI, challenge, method; the last
\* with the verifier itself as challenge and the method "plain"
OAuthRequests ==
    {[client_id |-> "c1", redirect_uri |-> "http://localhost/cb",
      code_challenge |-> S256("v1"), code_challenge_method |-> "S256"],
     [client_id |-> "c2", redirect_uri |-> "https://app/cb",
      code_challenge |-> S256("v2"), code_challenge_method |-> "S256"],
     [client_id |-> "c1", redirect_uri |-> "http://localhost/cb",
      code_challenge |-> <<"plain", "v1">>, code_challenge_method |-> "plain"]}

\* the tokens presented: every token the manager could have signed
OAuthTokens == {generate_token(c, t) : c \in OAuthClients, t \in 0..MaxTime}

InitOAuth ==
    /\ bundled = EmptyTier
    /\ user = EmptyTier
    /\ custom = EmptyTier
    /\ op = [kind |-> "oauth", auth_codes |-> <<>>, tokens |-> <<>>, now |-> 0,
             created |-> 0, issued |-> {}, last |-> [call |-> "none"]]
    /\ saves = 0

\* a call of create_authorization_code; secrets.token_urlsafe(32) gives a code
\* never given before
CreateAuthorizationCode(request) ==
    /\ op.kind = "oauth"
    /\ op.created < Len(OAuthCodes)
    /\ \E m \in {create_authorization_code(op, OAuthCodes[op.created + 1], request.client_id,
                                           request.redirect_uri, request.code_challenge,
                                           request.code_challenge_method, op.now)} :
        op' = [m EXCEPT !.created = op.created + 1,
                        !.last = [call |-> "create", code |-> OAuthCodes[op.created + 1]]]
    /\ UNCHANGED <<bundled, user, custom, saves>>

\* a call of exchange_code
ExchangeCode(code, client_id, redirect_uri, code_verifier) ==
    /\ op.kind = "oauth"
    /\ \E r \in {exchange_code(op, code, client_id, redirect_uri, code_verifier, op.now)} :
        op' = [op EXCEPT
                 !.auth_codes = r.auth_codes,
                 !.tokens = r.tokens,
                 !.issued = IF r.kind = "token"
                            THEN @ \cup {[code |-> code,
                                          token |-> generate_token(client_id, op.now),
                                          at |-> op.now]}
                            ELSE @,
                 !.last = [call |-> "exchange", code |-> code, client_id |-> client_id,
                           redirect_uri |-> redirect_uri, code_verifier |-> code_verifier,
                           known |-> code \in DOMAIN op.auth_codes,
                           bound |-> IF code \in DOMAIN op.auth_codes
                                     THEN op.auth_codes[code] ELSE [client_id |-> "none"],
                           at |-> op.now,
                           result |-> r.kind]]
    /\ UNCHANGED <<bundled, user, custom, saves>>

\* a call of validate_token
ValidateToken(token) ==
    /\ op.kind = "oauth"
    /\ \E r \in {validate_token(op, token, op.now)} :
        op' = [op EXCEPT !.tokens = r.tokens,
                         !.last = [call |-> "validate", token |-> token, at |-> op.now,
                                   result |-> r.valid]]
    /\ UNCHANGED <<bundled, user, custom, saves>>

\* time.time() advances
Tick ==
    /\ op.kind = "oauth"
    /\ op.now < MaxTime
    /\ op' = [op EXCEPT !.now = op.now + 1, !.last = [call |-> "none"]]
    /\ UNCHANGED <<bundled, user, custom, saves>>

NextOAuth ==
    \/ \E request \in OAuthRequests : CreateAuthorizationCode(request)
    \/ \E code \in Range(OAuthCodes) \cup {"unknown"}, client_id \in OAuthClients,
          redirect_uri \in OAuthUris, code_verifier \in OAuthVerifiers :
            ExchangeCode(code, client_id, redirect_uri, code_verifier)
    \/ \E token \in OAuthTokens : ValidateToken(token)
    \/ Tick

SpecOAuth == InitOAuth /\ [][NextOAuth]_vars

-----------------------------------------------------------------------------
(* C30: the tokens the OAuth manager issues and accepts.                   *)

\* the last call was of the given method
LastCall(call) == op.kind = "oauth" /\ op.last.call = call

\* C30: every token validate_token accepts was issued by a successful exchange_code
\* and has not expired; a token is issued only for a code that exists, is unexpired
\* and was created with the client_id, the redirect_uri and the S256 challenge of
\* the verifier presented; each authorization code yields at most one token.
C30_TokensOnlyFromValidExchange ==
    op.kind = "oauth" =>
        /\ (LastCall("validate") /\ op.last.result) =>
              \E i \in op.issued :
                  /\ i.token = op.last.token
                  /\ op.now <= i.at + OAuthTokenExpiry
        /\ (LastCall("exchange") /\ op.last.result = "token") =>
              /\ op.last.known
              /\ op.last.at <= op.last.bound.created_at + CodeExpiresIn
              /\ op.last.bound.client_id = op.last.client_id
              /\ op.last.bound.redirect_uri = op.last.redirect_uri
              /\ op.last.bound.code_challenge_method = "S256"
              /\ op.last.bound.code_challenge = S256(op.last.code_verifier)
              /\ op.last.code \notin DOMAIN op.auth_codes
        /\ \A i \in op.issued, j \in op.issued : i.code = j.code => i = j
        /\ \A t \in DOMAIN op.tokens : \E i \in op.issued : i.token = t

\* a token issued for the first code is accepted after the clock has advanced, the
\* code itself being used up
C30_Witness ==
    /\ LastCall("validate")
    /\ op.last.result
    /\ op.last.at > 0
    /\ \E i \in op.issued : i.code = "code1" /\ i.token = op.last.token
    /\ "code1" \notin DOMAIN op.auth_codes

\* the second exchange of an exchanged code fails
C30_WitnessSecondExchange ==
    /\ LastCall("exchange")
    /\ op.last.result = "none"
    /\ ~op.last.known
    /\ \E i \in op.issued : i.code = op.last.code

=============================================================================
